---------------------------- MODULE Spec2Model ----------------------------
(***************************************************************************)
(* A model of the three-statement projection engine (financial_model.py).  *)
(*                                                                         *)
(* One run of the program is one behaviour: the configuration is loaded,   *)
(* the period dates are made, then the income statement, the first-pass    *)
(* balance sheet and the cash-flow statement are built, cash is written    *)
(* back into the balance sheet, the three tables are exported and the      *)
(* balance check is reported.                                              *)
(*                                                                         *)
(* Numbers.  The program computes in IEEE doubles.  The model draws every  *)
(* configured amount, growth factor and rate from the integers, where the  *)
(* program's sums, differences and products are exact, so a cell of the    *)
(* model holds the very value the program computes for that input.  The    *)
(* one division of the engine (Gross_Margin_Pct) is modelled by the value  *)
(* classes a double division produces: a finite quotient, an infinity or   *)
(* NaN.                                                                    *)
(*                                                                         *)
(* Tables.  A pandas DataFrame is a function from column names to columns; *)
(* a column is a function from the row indices that hold a value to that   *)
(* value.  A row index missing from a column's domain is a NaN cell.       *)
(*                                                                         *)
(* Configuration.  The YAML mapping is a record; a key that the file does  *)
(* not hold is a field the record does not have.                           *)
(***************************************************************************)
EXTENDS Integers, Sequences, FiniteSets, TLC

VARIABLES
    config,        \* the mapping read from client_config.yaml
    pc,            \* the statement of the program that runs next
    i,             \* the loop index of the loop in progress
    dates,         \* the result of create_date_row
    income_stmt,   \* DataFrame of build_income_statement
    balance_sheet, \* DataFrame of build_balance_sheet, then of main
    cash_flow_stmt,\* DataFrame of build_cash_flow_statement
    exported,      \* the tables written by to_csv, by file
    report,        \* the balance message main prints last
    error          \* the exception that ended the run, if any

vars == <<config, pc, i, dates, income_stmt, balance_sheet, cash_flow_stmt,
          exported, report, error>>

---------------------------------------------------------------------------
(* Bounds of the model. *)

\* The largest period count (num_periods) of a run.
MaxPeriods == 10

---------------------------------------------------------------------------
(* Generic helpers: mappings and DataFrames. *)

Has(mapping, key) == key \in DOMAIN mapping

Drop(mapping, key) == [k \in DOMAIN mapping \ {key} |-> mapping[k]]

Range(f) == {f[k] : k \in DOMAIN f}

Min(a, b) == IF a <= b THEN a ELSE b

Abs(x) == IF x < 0 THEN -x ELSE x

RECURSIVE SumSeq(_)
SumSeq(s) == IF s = <<>> THEN 0 ELSE Head(s) + SumSeq(Tail(s))

\* pd.DataFrame(index=range(n_periods)): no columns yet.
EmptyFrame == [c \in {} |-> 0]

EmptyColumn == [r \in {} |-> 0]

Rows(n) == 0 .. (n - 1)

\* df[col] = <column>.
SetCol(df, col, column) ==
    [c \in DOMAIN df \cup {col} |-> IF c = col THEN column ELSE df[c]]

\* df[col] = scalar: every row of the index gets the scalar.
SetConst(df, col, n, v) == SetCol(df, col, [r \in Rows(n) |-> v])

\* df.loc[row, col] = v: a new column is NaN in its other rows.
SetCell(df, col, row, v) ==
    LET old == IF col \in DOMAIN df THEN df[col] ELSE EmptyColumn
    IN  SetCol(df, col, [r \in DOMAIN old \cup {row} |->
                            IF r = row THEN v ELSE old[r]])

\* The cell is not NaN.
IsSet(df, col, row) == col \in DOMAIN df /\ row \in DOMAIN df[col]

---------------------------------------------------------------------------
(* The configurations a run may load. *)

Stream(init, growth) == [initial_value |-> init, growth_rate |-> growth]

\* period_values arrays: one entry per period, as a sequence.
Flat(v, len) == [k \in 1 .. len |-> v]

Ramp(v, step, len) == [k \in 1 .. len |-> v + step * k]

Wave(v, step, len) == [k \in 1 .. len |-> IF k % 2 = 1 THEN v + step ELSE v - step]

BaseIncome ==
    [revenue_streams |->
        [stream_1 |-> Stream(50000, 1), stream_2 |-> Stream(30000, 1),
         stream_3 |-> Stream(10000, 1), stream_4 |-> Stream(5000, 1)],
     sales_returns |-> [initial_value |-> -500, rate |-> 0],
     cogs |->
        [variable_costs |-> Stream(20000, 1),
         fixed_costs |-> [initial_value |-> 30000,
                          changes |-> [k \in {5} |-> 35000]]],
     operating_expenses |->
        [ga_expenses |-> 27895,
         salaries |-> [total_salaries |-> 220500, benefits |-> 22050,
                       payroll_taxes |-> 18700, processing_fees |-> 1000,
                       bonuses |-> 10000, commissions |-> 16000]],
     depreciation_amortization |-> [depreciation |-> 120, amortization |-> 100],
     other_income_expenses |->
        [interest_income |-> 1000, other_income |-> 230,
         interest_expense |-> 430, bad_debt |-> 350],
     taxes |-> [income_taxes |-> 1500]]

\* Opening balances that balance against the constants below:
\* assets 45500 + 12000 + 8000 + 1500 + 205000 = 272000,
\* liabilities and equity 6000 + 5000 + 2000 + 1000 + 3000 + 1500 + 35000
\*   + 108000 + 110500 = 272000.
BaseBalance(len) ==
    [beginning_balances |->
        [cash |-> 45500, inventory |-> 12000, accounts_receivable |-> 8000,
         other_receivable |-> 500, prepaid_expenses |-> 400,
         prepaid_insurance |-> 300, unbilled_revenue |-> 200,
         other_current_assets |-> 100, accounts_payable |-> 6000,
         accrued_expenses |-> 2000, accrued_taxes |-> 1000,
         other_current_liabilities |-> 3000],
     period_values |->
        [inventory |-> Flat(12000, len),
         accounts_receivable |-> Flat(8000, len),
         accounts_payable |-> Flat(6000, len),
         accrued_expenses |-> Flat(2000, len),
         other_current_liabilities |-> Flat(3000, len),
         other_current_assets_components |->
            [other_receivable |-> Flat(500, len),
             prepaid_expenses |-> Flat(400, len),
             prepaid_insurance |-> Flat(300, len),
             unbilled_revenue |-> Flat(200, len),
             other_current_assets |-> Flat(100, len)]],
     fixed_assets |-> [ppe_gross |-> 205000, intangibles_gross |-> 0],
     liabilities_constants |->
        [credit_cards |-> 1500, notes_payable |-> 35000,
         deferred_income |-> 5000, accrued_taxes |-> 1000,
         long_term_debt |-> 100000, deferred_tax_liabilities |-> 3000,
         other_liabilities |-> 5000],
     equity |->
        [paid_in_capital |-> 10000, common_stock |-> 25500,
         preferred_stock |-> 10000, capital_round_1 |-> 10000,
         capital_round_2 |-> 10000, capital_round_3 |-> 45000]]

BaseConfig(n) ==
    [model_settings |-> [start_date |-> 0, num_periods |-> n,
                         output_directory |-> "output"],
     income_statement |-> BaseIncome,
     balance_sheet |-> BaseBalance(n)]


\* Fixed-cost override maps: the 'changes' mapping, keyed period_<k>.
ChangeMaps ==
    { [k \in {} |-> 0],
      [k \in {5} |-> 35000],
      [k \in {5, 8} |-> IF k = 5 THEN 35000 ELSE 40000],
      [k \in {3} |-> 32000],
      [k \in {3, 5} |-> IF k = 3 THEN 32000 ELSE 35000],
      [k \in {8} |-> 40000],
      [k \in {0, 5} |-> IF k = 0 THEN 31000 ELSE 35000] }

FixedCostConfigs ==
    { [initial_value |-> 30000] }
    \cup { [initial_value |-> 30000, changes |-> ch] : ch \in ChangeMaps }

RevenueConfigs ==
    { BaseIncome.revenue_streams,
      [stream_1 |-> Stream(50000, 2), stream_2 |-> Stream(30000, 1),
       stream_3 |-> Stream(10000, 2), stream_4 |-> Stream(5000, 1)],
      [stream_1 |-> Stream(0, 2), stream_2 |-> Stream(0, 1),
       stream_3 |-> Stream(0, 1), stream_4 |-> Stream(0, 1)] }

SalesReturnsConfigs ==
    { [initial_value |-> v, rate |-> r] : v \in {-500, 0}, r \in {0, 1} }

PeriodCounts == {1, 2, MaxPeriods}

\* Configurations that vary the income-statement assumptions.
IncomeConfigs ==
    { [BaseConfig(n) EXCEPT
          !.income_statement.revenue_streams = rev,
          !.income_statement.sales_returns = sr,
          !.income_statement.cogs.variable_costs.growth_rate = vg,
          !.income_statement.cogs.fixed_costs = fc,
          !.income_statement.other_income_expenses.interest_income = ii]
      : n \in PeriodCounts, rev \in RevenueConfigs, sr \in SalesReturnsConfigs,
        vg \in {1, 2}, fc \in FixedCostConfigs, ii \in {0, 1000} }

\* Period-by-period balances: flat at the opening balance, drifting, or the
\* receivable falling 10,000 -> 8,000 and the payable rising 5,000 -> 6,000.
PeriodValueConfigs(len) ==
    LET base == BaseBalance(len).period_values
    IN  { base,
          [base EXCEPT
              !.inventory = Ramp(12000, 100, len),
              !.accounts_receivable = Wave(8000, 500, len),
              !.accounts_payable = Ramp(6000, 50, len),
              !.accrued_expenses = Wave(2000, 100, len),
              !.other_current_liabilities = Ramp(3000, -10, len),
              !.other_current_assets_components.other_receivable = Ramp(500, 20, len),
              !.other_current_assets_components.prepaid_expenses = Wave(400, 30, len),
              !.other_current_assets_components.unbilled_revenue = Ramp(200, -5, len)],
          [base EXCEPT
              !.accounts_receivable = Wave(9000, -1000, len),
              !.accounts_payable = Wave(5500, 500, len)] }

\* Configurations that vary the balance-sheet assumptions.
BalanceConfigs ==
    UNION { { [BaseConfig(n) EXCEPT
                 !.income_statement.revenue_streams.stream_1.growth_rate = g,
                 !.balance_sheet.period_values = pv,
                 !.balance_sheet.beginning_balances.cash = cash,
                 !.balance_sheet.beginning_balances.accounts_receivable = ar,
                 !.balance_sheet.beginning_balances.accounts_payable = ap,
                 !.balance_sheet.beginning_balances.accrued_taxes = at,
                 !.balance_sheet.liabilities_constants.deferred_income = di]
              : g \in {1, 2}, pv \in PeriodValueConfigs(n),
                cash \in {45500, 46200}, ar \in {8000, 10000},
                ap \in {6000, 5000}, at \in {1000, 1200}, di \in {5000, 6000} }
            : n \in PeriodCounts }

\* Key paths one of which the file may lack.
OptionalPaths ==
    { <<"income_statement">>, <<"model_settings", "num_periods">>,
      <<"income_statement", "revenue_streams">>,
      <<"income_statement", "revenue_streams", "stream_2", "growth_rate">>,
      <<"income_statement", "sales_returns", "initial_value">>,
      <<"income_statement", "cogs", "variable_costs", "growth_rate">>,
      <<"income_statement", "operating_expenses", "salaries", "bonuses">>,
      <<"income_statement", "other_income_expenses", "bad_debt">>,
      <<"income_statement", "taxes">>,
      <<"balance_sheet", "period_values", "inventory">>,
      <<"balance_sheet", "fixed_assets">>,
      <<"balance_sheet", "equity", "capital_round_3">>,
      <<"balance_sheet", "beginning_balances">>,
      <<"balance_sheet", "beginning_balances", "accrued_taxes">>,
      <<"balance_sheet", "beginning_balances", "cash">> }

RECURSIVE DropPath(_, _)
DropPath(mapping, path) ==
    IF Len(path) = 1
    THEN Drop(mapping, path[1])
    ELSE [k \in DOMAIN mapping |->
             IF k = path[1] THEN DropPath(mapping[k], Tail(path)) ELSE mapping[k]]

\* Configurations with one required key missing.
IncompleteConfigs ==
    { DropPath(BaseConfig(n), path) : n \in PeriodCounts, path \in OptionalPaths }

\* Period arrays one entry shorter or longer than the period count.  The
\* entry past the period count is an amount of its own (not the flat one).
Resized(v, len, by) ==
    [k \in 1 .. (len + by) |-> IF k > len THEN v + 700 ELSE v]

ArrayLengthOffsets == {-1, 1}

\* Configurations in which one period array has the wrong length.
ArrayLengthConfigs ==
    UNION { { [BaseConfig(n) EXCEPT
                 !.balance_sheet.period_values.inventory = Resized(12000, n, by)],
              [BaseConfig(n) EXCEPT
                 !.balance_sheet.period_values.other_current_liabilities =
                     Resized(3000, n, by)],
              [BaseConfig(n) EXCEPT
                 !.balance_sheet.period_values.other_current_assets_components
                      .prepaid_insurance = Resized(300, n, by)] }
            : n \in PeriodCounts, by \in ArrayLengthOffsets }

\* Configurations that vary the fixed assets and their per-period charges.
FixedAssetConfigs ==
    { [BaseConfig(n) EXCEPT
          !.income_statement.depreciation_amortization =
              [depreciation |-> dep, amortization |-> am],
          !.balance_sheet.fixed_assets.intangibles_gross = ig]
      : n \in PeriodCounts, dep \in {0, 120}, am \in {100, 250}, ig \in {0, 3000} }

Configs ==
    IncomeConfigs \cup BalanceConfigs \cup IncompleteConfigs \cup ArrayLengthConfigs
    \cup FixedAssetConfigs

---------------------------------------------------------------------------
(* Exceptions and the step-by-step evaluation of a block of assignments. *)

NoError == [type |-> "none", key |-> ""]

KeyError(key) == [type |-> "KeyError", key |-> key]

ValueError == [type |-> "ValueError", key |-> ""]

IndexError == [type |-> "IndexError", key |-> ""]

\* The first key of the path that the mapping (then its sub-mappings) lacks.
RECURSIVE MissingKey(_, _)
MissingKey(mapping, path) ==
    IF path = <<>> THEN ""
    ELSE IF ~Has(mapping, Head(path)) THEN Head(path)
    ELSE MissingKey(mapping[Head(path)], Tail(path))

Ok(df) == [df |-> df, err |-> NoError]

\* F applied to the value of e, with e evaluated once.
Pipe(e, F(_)) == CHOOSE y \in {F(x) : x \in {e}} : TRUE

\* One statement of a block: it reads mapping[path] (a KeyError when a key is
\* missing, leaving the frame as the statements before it made it) and then
\* makes the next frame from the frame so far.  A block that has raised runs
\* no further statement.
Then(res, mapping, path, Make(_)) ==
    Pipe(res, LAMBDA r :
        IF r.err # NoError THEN r
        ELSE IF MissingKey(mapping, path) # ""
        THEN [df |-> r.df, err |-> KeyError(MissingKey(mapping, path))]
        ELSE Ok(Make(r.df)))

\* df[col] = mapping[key], a scalar.
ThenConst(res, mapping, key, col, n) ==
    Then(res, mapping, <<key>>, LAMBDA d : SetConst(d, col, n, mapping[key]))

\* df[col] = mapping[key][:n], a list: pandas raises a ValueError unless the
\* slice has one value per row of the index.
ThenList(res, mapping, key, col, n) ==
    Pipe(res, LAMBDA r :
        IF r.err # NoError THEN r
        ELSE IF ~Has(mapping, key) THEN [df |-> r.df, err |-> KeyError(key)]
        ELSE IF Min(Len(mapping[key]), n) # n THEN [df |-> r.df, err |-> ValueError]
        ELSE Ok(SetCol(r.df, col, [k \in Rows(n) |-> mapping[key][k + 1]])))

\* The next block of statements, unless the one before it has raised.
AndThen(res, Block(_)) ==
    Pipe(res, LAMBDA r : IF r.err = NoError THEN Block(r.df) ELSE r)

---------------------------------------------------------------------------
(* Module level: the configuration is loaded and the settings parsed. *)

Init ==
    /\ config \in Configs
    /\ pc = "load"
    /\ i = 0
    /\ dates = <<>>
    /\ income_stmt = EmptyFrame
    /\ balance_sheet = EmptyFrame
    /\ cash_flow_stmt = EmptyFrame
    /\ exported = EmptyFrame
    /\ report = [message |-> "none", max_imbalance |-> 0]
    /\ error = NoError

income_config == config.income_statement

balance_config == config.balance_sheet

NUM_PERIODS == config.model_settings.num_periods

START_DATE == config.model_settings.start_date

\* The keys the module reads while it is imported, in the order it reads them.
LoadPaths ==
    << <<"model_settings">>, <<"income_statement">>, <<"balance_sheet">>,
       <<"model_settings", "start_date">>, <<"model_settings", "num_periods">>,
       <<"model_settings", "output_directory">> >>

RECURSIVE FirstMissing(_, _)
FirstMissing(mapping, paths) ==
    IF paths = <<>> THEN ""
    ELSE LET k == MissingKey(mapping, Head(paths))
         IN  IF k # "" THEN k ELSE FirstMissing(mapping, Tail(paths))

LoadConfig ==
    /\ pc = "load"
    /\ LET k == FirstMissing(config, LoadPaths)
       IN  IF k # ""
           THEN pc' = "error" /\ error' = KeyError(k)
           ELSE pc' = "main" /\ error' = error
    /\ UNCHANGED <<config, i, dates, income_stmt, balance_sheet,
                   cash_flow_stmt, exported, report>>

\* A date row of one date per period after the first.
create_date_row_short(start_date, num_periods) ==
    [k \in 1 .. (num_periods - 1) |-> start_date + (k - 1)]

\* create_date_row: the month-end of the start month, then one month-end per
\* further period.  A date is the number of its month, counted from the
\* start date's month.
create_date_row(start_date, num_periods) ==
    LET extra == IF num_periods - 1 > 0 THEN num_periods - 1 ELSE 0
    IN  [k \in 1 .. (1 + extra) |-> start_date + (k - 1)]

CreateDates ==
    /\ pc = "main"
    /\ dates' = create_date_row(START_DATE, NUM_PERIODS)
    /\ pc' = "is_begin"
    /\ UNCHANGED <<config, i, income_stmt, balance_sheet, cash_flow_stmt,
                   exported, report, error>>

n_periods == Len(dates)

DateColumn == [r \in Rows(n_periods) |-> dates[r + 1]]

---------------------------------------------------------------------------
(* build_income_statement *)

RevenueColumns ==
    <<"Revenue_Stream_1", "Revenue_Stream_2", "Revenue_Stream_3",
      "Revenue_Stream_4">>

\* The rows in which every one of the columns holds a value.
RowsSet(df, cols) == {r \in Rows(n_periods) : \A c \in cols : IsSet(df, c, r)}

SumRevenue(df, r) ==
    df["Revenue_Stream_1"][r] + df["Revenue_Stream_2"][r]
    + df["Revenue_Stream_3"][r] + df["Revenue_Stream_4"][r]

\* The outcome of a block: the frame it leaves, and the next statement or
\* the exception.
EndIncome(res, to) ==
    \E r \in {res} :
        /\ income_stmt' = r.df
        /\ IF r.err = NoError
           THEN pc' = to /\ error' = error
           ELSE pc' = "error" /\ error' = r.err

\* Period 0 of each revenue stream.
InitialRevenue(df) ==
    LET rev == income_config.revenue_streams
        r0 == Then(Ok(df), income_config, <<"revenue_streams">>, LAMBDA d : d)
        r1 == Then(r0, rev, <<"stream_1", "initial_value">>,
                   LAMBDA d : SetCell(d, "Revenue_Stream_1", 0, rev.stream_1.initial_value))
        r2 == Then(r1, rev, <<"stream_2", "initial_value">>,
                   LAMBDA d : SetCell(d, "Revenue_Stream_2", 0, rev.stream_2.initial_value))
        r3 == Then(r2, rev, <<"stream_3", "initial_value">>,
                   LAMBDA d : SetCell(d, "Revenue_Stream_3", 0, rev.stream_3.initial_value))
        r4 == Then(r3, rev, <<"stream_4", "initial_value">>,
                   LAMBDA d : SetCell(d, "Revenue_Stream_4", 0, rev.stream_4.initial_value))
    IN  r4

\* A growth step that reads the factor as an increment.
GrowthStepAsIncrement(prior, growth_rate) == prior + prior * growth_rate

\* One stream's value at period p > 0, from its value at p - 1.
GrowthStep(prior, growth_rate) == prior * growth_rate

\* Period p > 0 of each revenue stream.
RevenueStep(df, p) ==
    LET rev == income_config.revenue_streams
        r1 == Then(Ok(df), rev, <<"stream_1", "growth_rate">>,
                   LAMBDA d : SetCell(df, "Revenue_Stream_1", p,
                     GrowthStep(df["Revenue_Stream_1"][p - 1], rev.stream_1.growth_rate)))
        r2 == Then(r1, rev, <<"stream_2", "growth_rate">>,
                   LAMBDA d : SetCell(d, "Revenue_Stream_2", p,
                     GrowthStep(df["Revenue_Stream_2"][p - 1], rev.stream_2.growth_rate)))
        r3 == Then(r2, rev, <<"stream_3", "growth_rate">>,
                   LAMBDA d : SetCell(d, "Revenue_Stream_3", p,
                     GrowthStep(df["Revenue_Stream_3"][p - 1], rev.stream_3.growth_rate)))
        r4 == Then(r3, rev, <<"stream_4", "growth_rate">>,
                   LAMBDA d : SetCell(d, "Revenue_Stream_4", p,
                     GrowthStep(df["Revenue_Stream_4"][p - 1], rev.stream_4.growth_rate)))
    IN  r4

\* Sales returns with the sign of revenue.
SalesReturnsUnsigned(df, r, rate) == SumRevenue(df, r) * rate

\* Sales_Returns by the formula in every row.
SalesReturnsFormula(df, r, rate) == (-SumRevenue(df, r)) * rate

\* Sales_Returns: the formula, then the period-0 actual over it.
SalesReturns(df) ==
    LET sr == income_config.sales_returns
        full == RowsSet(df, Range(RevenueColumns))
        r1 == Then(Ok(df), income_config, <<"sales_returns", "rate">>,
                   LAMBDA d : SetCol(df, "Sales_Returns",
                          [r \in full |-> SalesReturnsFormula(df, r, sr.rate)]))
        r2 == Then(r1, sr, <<"initial_value">>,
                   LAMBDA d : SetCell(d, "Sales_Returns", 0, sr.initial_value))
    IN  r2

NetRevenue(df) ==
    SetCol(df, "Net_Revenue",
           [r \in RowsSet(df, Range(RevenueColumns) \cup {"Sales_Returns"}) |->
               SumRevenue(df, r) + df["Sales_Returns"][r]])

\* Period 0 of the cost lines.
InitialCosts(df) ==
    LET cogs == income_config.cogs
        r1 == Then(Ok(df), income_config, <<"cogs", "variable_costs", "initial_value">>,
                   LAMBDA d : SetCell(df, "Variable_Costs", 0, cogs.variable_costs.initial_value))
        r2 == Then(r1, cogs, <<"fixed_costs", "initial_value">>,
                   LAMBDA d : SetCell(d, "Fixed_Costs", 0, cogs.fixed_costs.initial_value))
    IN  r2

\* Fixed costs in which an override stays in force until the next one.
RECURSIVE FixedCostsSticky(_, _)
FixedCostsSticky(fixed_costs, p) ==
    IF p = 0 THEN fixed_costs.initial_value
    ELSE IF Has(fixed_costs, "changes") /\ p \in DOMAIN fixed_costs.changes
    THEN fixed_costs.changes[p]
    ELSE FixedCostsSticky(fixed_costs, p - 1)

\* Fixed costs with nothing to fall back on when no override applies.
FixedCostsWithoutDefault(fixed_costs, p) ==
    IF Has(fixed_costs, "changes") /\ p \in DOMAIN fixed_costs.changes
    THEN fixed_costs.changes[p]
    ELSE IF Has(fixed_costs, "changes") /\ p >= 5 /\ 5 \in DOMAIN fixed_costs.changes
    THEN fixed_costs.changes[5]
    ELSE 0

\* Fixed_Costs at period p > 0.
FixedCostsAt(fixed_costs, p) ==
    IF Has(fixed_costs, "changes")
    THEN LET changes == fixed_costs.changes
         IN  IF p \in DOMAIN changes THEN changes[p]
             ELSE IF p >= 5 /\ 5 \in DOMAIN changes THEN changes[5]
             ELSE fixed_costs.initial_value
    ELSE fixed_costs.initial_value

\* Period p > 0 of the cost lines.
CostStep(df, p) ==
    LET cogs == income_config.cogs
        r1 == Then(Ok(df), cogs, <<"variable_costs", "growth_rate">>,
                   LAMBDA d : SetCell(df, "Variable_Costs", p,
                     GrowthStep(df["Variable_Costs"][p - 1], cogs.variable_costs.growth_rate)))
        r2 == Then(r1, cogs, <<"fixed_costs">>,
                   LAMBDA d : SetCell(d, "Fixed_Costs", p, FixedCostsAt(cogs.fixed_costs, p)))
    IN  r2

\* Gross_Profit / Net_Revenue in IEEE doubles: a division by zero raises
\* nothing; it gives an infinity of the dividend's sign, or NaN for 0 / 0.
FloatDiv(num, den) ==
    IF den # 0 THEN [class |-> "finite", num |-> num, den |-> den]
    ELSE IF num > 0 THEN [class |-> "inf", num |-> 1, den |-> 0]
    ELSE IF num < 0 THEN [class |-> "-inf", num |-> -1, den |-> 0]
    ELSE [class |-> "nan", num |-> 0, den |-> 0]

\* Column a + column b, a - column b (NaN where either is NaN).
ColAdd(df, a, b) == [r \in RowsSet(df, {a, b}) |-> df[a][r] + df[b][r]]

ColSub(df, a, b) == [r \in RowsSet(df, {a, b}) |-> df[a][r] - df[b][r]]

Margins(df) ==
    LET d1 == SetCol(df, "Total_COGS", ColAdd(df, "Variable_Costs", "Fixed_Costs"))
        d2 == SetCol(d1, "Gross_Profit", ColSub(d1, "Net_Revenue", "Total_COGS"))
        d3 == SetCol(d2, "Gross_Margin_Pct",
                     [r \in RowsSet(d2, {"Gross_Profit", "Net_Revenue"}) |->
                         FloatDiv(d2["Gross_Profit"][r], d2["Net_Revenue"][r])])
    IN  d3

SalaryKeys ==
    <<"total_salaries", "benefits", "payroll_taxes", "processing_fees",
      "bonuses", "commissions">>

\* The salary keys the mapping lacks, in the order the code reads them.
RECURSIVE FirstAbsent(_, _)
FirstAbsent(mapping, keys) ==
    IF keys = <<>> THEN <<>>
    ELSE IF Has(mapping, Head(keys)) THEN FirstAbsent(mapping, Tail(keys))
    ELSE <<Head(keys)>>

\* A salary total that leaves the commissions out.
TotalSalariesWithoutCommissions(salaries) ==
    salaries.total_salaries + salaries.benefits + salaries.payroll_taxes
    + salaries.processing_fees + salaries.bonuses

TotalSalaries(salaries) ==
    salaries.total_salaries + salaries.benefits + salaries.payroll_taxes
    + salaries.processing_fees + salaries.bonuses + salaries.commissions

\* Operating expenses and EBITDA.
OperatingLines(df) ==
    LET n == n_periods
        opex == income_config.operating_expenses
        r1 == Then(Ok(df), income_config, <<"operating_expenses", "ga_expenses">>,
                   LAMBDA d : SetConst(df, "GA_Expenses", n, opex.ga_expenses))
        r2 == Then(r1, opex, <<"salaries">> \o FirstAbsent(opex.salaries, SalaryKeys),
                   LAMBDA d : SetConst(d, "Total_Salaries_Commissions", n,
                            TotalSalaries(opex.salaries)))
        r3 == Then(r2, opex, <<>>,
                   LAMBDA d : LET d1 == SetCol(d, "Total_Operating_Expenses",
                                    ColAdd(d, "GA_Expenses", "Total_Salaries_Commissions"))
                   IN  SetCol(d1, "EBITDA",
                              ColSub(d1, "Gross_Profit", "Total_Operating_Expenses")))
    IN  r3

\* Total_Interest_DA: every item is added as configured.
TotalInterestDA(ii, oi, ie, bd, dep, am) == ii + oi + ie + bd + dep + am

\* Net_Income_Before_Taxes from EBITDA and Total_Interest_DA.
BeforeTaxes(ebitda, total_interest_da) == ebitda - total_interest_da

\* Other income and expense, depreciation and amortization, and the result
\* before taxes.
OtherLines(df) ==
    LET n == n_periods
        other == income_config.other_income_expenses
        da == income_config.depreciation_amortization
        r1 == Then(Ok(df), income_config, <<"other_income_expenses", "interest_income">>,
                   LAMBDA d : SetConst(df, "Interest_Income", n, other.interest_income))
        r2 == Then(r1, other, <<"other_income">>,
                   LAMBDA d : SetConst(d, "Other_Income", n, other.other_income))
        r3 == Then(r2, other, <<"interest_expense">>,
                   LAMBDA d : SetConst(d, "Interest_Expense", n, other.interest_expense))
        r4 == Then(r3, other, <<"bad_debt">>,
                   LAMBDA d : SetConst(d, "Bad_Debt", n, other.bad_debt))
        r5 == Then(r4, income_config, <<"depreciation_amortization", "depreciation">>,
                   LAMBDA d : SetConst(d, "Depreciation", n, da.depreciation))
        r6 == Then(r5, da, <<"amortization">>,
                   LAMBDA d : SetConst(d, "Amortization", n, da.amortization))
        r7 == Then(r6, da, <<>>,
                   LAMBDA d :
                   LET all == {"Interest_Income", "Other_Income", "Interest_Expense",
                               "Bad_Debt", "Depreciation", "Amortization"}
                       d1 == SetCol(d, "Total_Interest_DA",
                                 [r \in RowsSet(d, all) |->
                                     TotalInterestDA(d["Interest_Income"][r],
                                         d["Other_Income"][r], d["Interest_Expense"][r],
                                         d["Bad_Debt"][r], d["Depreciation"][r],
                                         d["Amortization"][r])])
                   IN  SetCol(d1, "Net_Income_Before_Taxes",
                           [r \in RowsSet(d1, {"EBITDA", "Total_Interest_DA"}) |->
                               BeforeTaxes(d1["EBITDA"][r], d1["Total_Interest_DA"][r])]))
    IN  r7

\* Taxes and net income.
TaxLines(df) ==
    LET r1 == Then(Ok(df), income_config, <<"taxes", "income_taxes">>,
                   LAMBDA d : SetConst(df, "Income_Taxes", n_periods,
                            income_config.taxes.income_taxes))
        r2 == Then(r1, income_config, <<>>,
                   LAMBDA d : SetCol(d, "Net_Income",
                          ColSub(d, "Net_Income_Before_Taxes", "Income_Taxes")))
    IN  r2

\* Lines 62-73: the frame, its dates, and period 0 of the revenue streams.
IS_Begin ==
    /\ pc = "is_begin"
    /\ EndIncome(InitialRevenue(SetCol(EmptyFrame, "Date", DateColumn)),
                 IF 1 < n_periods THEN "is_revenue_loop" ELSE "is_sales_returns")
    /\ i' = 1
    /\ UNCHANGED <<config, dates, balance_sheet, cash_flow_stmt, exported, report>>

\* Lines 75-79: one pass of the revenue loop.
IS_RevenueLoop ==
    /\ pc = "is_revenue_loop"
    /\ i < n_periods
    /\ EndIncome(RevenueStep(income_stmt, i),
                 IF i + 1 < n_periods THEN "is_revenue_loop" ELSE "is_sales_returns")
    /\ i' = i + 1
    /\ UNCHANGED <<config, dates, balance_sheet, cash_flow_stmt, exported, report>>

\* Lines 81-95: sales returns, net revenue, and period 0 of the cost lines.
IS_SalesReturns ==
    /\ pc = "is_sales_returns"
    /\ EndIncome(AndThen(AndThen(SalesReturns(income_stmt),
                                 LAMBDA d : Ok(NetRevenue(d))),
                         InitialCosts),
                 IF 1 < n_periods THEN "is_cost_loop" ELSE "is_totals")
    /\ i' = 1
    /\ UNCHANGED <<config, dates, balance_sheet, cash_flow_stmt, exported, report>>

\* Lines 97-109: one pass of the cost loop.
IS_CostLoop ==
    /\ pc = "is_cost_loop"
    /\ i < n_periods
    /\ EndIncome(CostStep(income_stmt, i),
                 IF i + 1 < n_periods THEN "is_cost_loop" ELSE "is_totals")
    /\ i' = i + 1
    /\ UNCHANGED <<config, dates, balance_sheet, cash_flow_stmt, exported, report>>

\* Lines 111-161: the column formulas down to Net_Income.
IS_Totals ==
    /\ pc = "is_totals"
    /\ EndIncome(AndThen(AndThen(OperatingLines(Margins(income_stmt)),
                                 OtherLines),
                         TaxLines),
                 "bs_build")
    /\ i' = 0
    /\ UNCHANGED <<config, dates, balance_sheet, cash_flow_stmt, exported, report>>

---------------------------------------------------------------------------
(* build_balance_sheet *)

ComponentKeys ==
    <<"other_receivable", "prepaid_expenses", "prepaid_insurance",
      "unbilled_revenue", "other_current_assets">>

\* Other_Current_Assets: the list, by period, of the sum of the five
\* component lists at that period.  Period 0 reads every key; a list that is
\* shorter than the index raises an IndexError.
OtherCurrentAssets(res, oca, n) ==
    Pipe(res, LAMBDA r :
        IF r.err # NoError THEN r
        ELSE IF FirstAbsent(oca, ComponentKeys) # <<>>
        THEN [df |-> r.df, err |-> KeyError(FirstAbsent(oca, ComponentKeys)[1])]
        ELSE IF \E k \in Range(ComponentKeys) : Len(oca[k]) < n
        THEN [df |-> r.df, err |-> IndexError]
        ELSE Ok(SetCol(r.df, "Other_Current_Assets",
                [k \in Rows(n) |->
                    oca.other_receivable[k + 1] + oca.prepaid_expenses[k + 1]
                    + oca.prepaid_insurance[k + 1] + oca.unbilled_revenue[k + 1]
                    + oca.other_current_assets[k + 1]])))

\* Accumulated depreciation (amortization) at period p.
\* An accumulation that starts at nothing in period 0.
AccumulatedFromZero(per_period, p) == (-per_period) * p

Accumulated(per_period, p) == (-per_period) * (p + 1)

\* Series.cumsum() at row r.
RECURSIVE CumSum(_, _)
CumSum(column, r) ==
    IF r = 0 THEN column[0] ELSE CumSum(column, r - 1) + column[r]

\* Lines 174-197: the externally supplied lines and the cash placeholder.
CurrentLines(df) ==
    LET n == n_periods
        pv == balance_config.period_values
        r0 == Then(Ok(df), balance_config, <<"period_values">>, LAMBDA d : d)
        r1 == ThenList(r0, pv, "inventory", "Inventory", n)
        r2 == ThenList(r1, pv, "accounts_receivable", "Accounts_Receivable", n)
        r3 == ThenList(r2, pv, "accounts_payable", "Accounts_Payable", n)
        r4 == ThenList(r3, pv, "accrued_expenses", "Accrued_Expenses", n)
        r5 == ThenList(r4, pv, "other_current_liabilities", "Other_Current_Liab", n)
        r6 == Then(r5, pv, <<"other_current_assets_components">>, LAMBDA d : d)
        r7 == OtherCurrentAssets(r6, pv.other_current_assets_components, n)
        r8 == Then(r7, pv, <<>>, LAMBDA d : SetConst(d, "Cash", n, 0))
    IN  r8

\* Lines 199-211: fixed assets.
FixedAssetLines(df) ==
    LET n == n_periods
        fixed_assets == balance_config.fixed_assets
        da == income_config.depreciation_amortization
        r0 == Then(Ok(df), balance_config, <<"fixed_assets">>, LAMBDA d : d)
        r1 == ThenConst(r0, fixed_assets, "ppe_gross", "PPE_Gross", n)
        r2 == Then(r1, income_config, <<"depreciation_amortization", "depreciation">>,
                   LAMBDA d :
                   LET d1 == SetCol(d, "Accumulated_Depreciation",
                                 [r \in Rows(n) |-> Accumulated(da.depreciation, r)])
                   IN  SetCol(d1, "PPE_Net",
                              ColAdd(d1, "PPE_Gross", "Accumulated_Depreciation")))
        r3 == ThenConst(r2, fixed_assets, "intangibles_gross", "Intangibles_Gross", n)
        r4 == Then(r3, da, <<"amortization">>,
                   LAMBDA d :
                   LET d1 == SetCol(d, "Accumulated_Amortization",
                                 [r \in Rows(n) |-> Accumulated(da.amortization, r)])
                       d2 == SetCol(d1, "Intangibles_Net",
                                 ColAdd(d1, "Intangibles_Gross", "Accumulated_Amortization"))
                   IN  SetCol(d2, "Total_Fixed_Assets",
                              ColAdd(d2, "PPE_Net", "Intangibles_Net")))
    IN  r4

\* The sum of the named columns, row by row (NaN where any is NaN).
ColSum(df, cols) ==
    [r \in RowsSet(df, Range(cols)) |-> SumSeq([k \in DOMAIN cols |-> df[cols[k]][r]])]

\* Lines 213-231: liabilities.
LiabilityLines(df) ==
    LET n == n_periods
        liab == balance_config.liabilities_constants
        r0 == Then(Ok(df), balance_config, <<"liabilities_constants">>, LAMBDA d : d)
        r1 == ThenConst(r0, liab, "credit_cards", "Credit_Cards", n)
        r2 == ThenConst(r1, liab, "notes_payable", "Notes_Payable", n)
        r3 == ThenConst(r2, liab, "deferred_income", "Deferred_Income", n)
        r4 == ThenConst(r3, liab, "accrued_taxes", "Accrued_Taxes", n)
        r5 == Then(r4, liab, <<>>,
                   LAMBDA d : SetCol(d, "Total_Current_Liabilities",
                       ColSum(d, <<"Accounts_Payable", "Credit_Cards", "Notes_Payable",
                                   "Deferred_Income", "Accrued_Expenses",
                                   "Accrued_Taxes", "Other_Current_Liab">>)))
        r6 == ThenConst(r5, liab, "long_term_debt", "Long_Term_Debt", n)
        r7 == ThenConst(r6, liab, "deferred_tax_liabilities", "Deferred_Tax_Liab", n)
        r8 == ThenConst(r7, liab, "other_liabilities", "Other_Liabilities", n)
        r9 == Then(r8, liab, <<>>,
                   LAMBDA d :
                   LET d1 == SetCol(d, "Total_Long_Term_Liabilities",
                                 ColSum(d, <<"Long_Term_Debt", "Deferred_Tax_Liab",
                                             "Other_Liabilities">>))
                   IN  SetCol(d1, "Total_Liabilities",
                              ColAdd(d1, "Total_Current_Liabilities",
                                     "Total_Long_Term_Liabilities")))
    IN  r9

\* Retained earnings that hold the period's net income alone.
RetainedEarningsNoCarry(net_income) == net_income

\* Retained_Earnings from the income statement's Net_Income.
RetainedEarnings(net_income) ==
    [r \in DOMAIN net_income |-> CumSum(net_income, r)]

\* Lines 233-247: equity.
EquityLines(df) ==
    LET n == n_periods
        equity == balance_config.equity
        r0 == Then(Ok(df), balance_config, <<"equity">>, LAMBDA d : d)
        r1 == ThenConst(r0, equity, "paid_in_capital", "Paid_In_Capital", n)
        r2 == ThenConst(r1, equity, "common_stock", "Common_Stock", n)
        r3 == ThenConst(r2, equity, "preferred_stock", "Preferred_Stock", n)
        r4 == ThenConst(r3, equity, "capital_round_1", "Capital_Round_1", n)
        r5 == ThenConst(r4, equity, "capital_round_2", "Capital_Round_2", n)
        r6 == ThenConst(r5, equity, "capital_round_3", "Capital_Round_3", n)
        r7 == Then(r6, equity, <<>>,
                   LAMBDA d :
                   LET d1 == SetCol(d, "Retained_Earnings",
                                    RetainedEarnings(income_stmt["Net_Income"]))
                   IN  SetCol(d1, "Total_Equity",
                           ColSum(d1, <<"Paid_In_Capital", "Common_Stock",
                                        "Preferred_Stock", "Capital_Round_1",
                                        "Capital_Round_2", "Capital_Round_3",
                                        "Retained_Earnings">>)))
    IN  r7

\* build_balance_sheet, first pass: Cash is a placeholder.
BS_Build ==
    /\ pc = "bs_build"
    /\ \E r \in {AndThen(AndThen(AndThen(
                       CurrentLines(SetCol(EmptyFrame, "Date", DateColumn)),
                       FixedAssetLines), LiabilityLines), EquityLines)} :
           /\ balance_sheet' = r.df
           /\ IF r.err = NoError
              THEN pc' = "cf_begin" /\ error' = error
              ELSE pc' = "error" /\ error' = r.err
    /\ UNCHANGED <<config, i, dates, income_stmt, cash_flow_stmt, exported, report>>

---------------------------------------------------------------------------
(* build_cash_flow_statement *)

\* An opening deferred income read from the assumption set.
BeginningDeferredIncomeConfigured ==
    balance_config.liabilities_constants.deferred_income

\* The beginning deferred income the code compares period 0 with.
BeginningDeferredIncome == 5000

\* An asset change that counts every movement as cash generated.
AssetChangeAbsolute(prior, current) == Abs(prior - current)

\* Change of an asset line: an increase consumes cash.
AssetChange(prior, current) == prior - current

\* A liability change signed as an asset change.
LiabilityChangeAsAsset(prior, current) == prior - current

\* Change of a liability line: an increase generates cash.
LiabilityChange(prior, current) == current - prior

\* Other current liabilities without the accrued taxes.
CombinedOCLWithoutTaxes(bs, p) ==
    bs["Accrued_Expenses"][p] + bs["Other_Current_Liab"][p]

\* Other current liabilities that take the balance sheet's cash in.
CombinedOCLWithCash(bs, p) ==
    bs["Accrued_Expenses"][p] + bs["Accrued_Taxes"][p] + bs["Other_Current_Liab"][p]
    + bs["Cash"][p]

\* current_ocl (prev_ocl) of the balance sheet at period p.
CombinedOCL(bs, p) ==
    bs["Accrued_Expenses"][p] + bs["Accrued_Taxes"][p] + bs["Other_Current_Liab"][p]

ChangeColumns ==
    <<"Change_AR", "Change_Inventory", "Change_Other_Current_Assets",
      "Change_AP", "Change_Deferred_Income", "Change_Other_Current_Liab">>

\* Lines 255-274: the frame, the income lines it copies, and the changes at 0.
CashFlowBegin(df) ==
    LET n == n_periods
        d1 == SetCol(df, "Net_Income", income_stmt["Net_Income"])
        d2 == SetCol(d1, "Depreciation", income_stmt["Depreciation"])
        d3 == SetCol(d2, "Amortization", income_stmt["Amortization"])
        d4 == SetConst(d3, "Change_AR", n, 0)
        d5 == SetConst(d4, "Change_Inventory", n, 0)
        d6 == SetConst(d5, "Change_Other_Current_Assets", n, 0)
        d7 == SetConst(d6, "Change_AP", n, 0)
        d8 == SetConst(d7, "Change_Deferred_Income", n, 0)
        d9 == SetConst(d8, "Change_Other_Current_Liab", n, 0)
    IN  Then(Ok(d9), balance_config, <<"beginning_balances">>, LAMBDA d : d)

\* Lines 278-300: period 0 against the beginning balances.
FirstChanges(df, bs) ==
    LET beginning == balance_config.beginning_balances
        r1 == Then(Ok(df), beginning, <<"accounts_receivable">>,
                   LAMBDA d : SetCell(d, "Change_AR", 0,
                       AssetChange(beginning.accounts_receivable,
                                   bs["Accounts_Receivable"][0])))
        r2 == Then(r1, beginning, <<"inventory">>,
                   LAMBDA d : SetCell(d, "Change_Inventory", 0,
                       AssetChange(beginning.inventory, bs["Inventory"][0])))
        r3 == Then(r2, beginning, FirstAbsent(beginning, ComponentKeys),
                   LAMBDA d : SetCell(d, "Change_Other_Current_Assets", 0,
                       AssetChange(beginning.other_receivable + beginning.prepaid_expenses
                                   + beginning.prepaid_insurance + beginning.unbilled_revenue
                                   + beginning.other_current_assets,
                                   bs["Other_Current_Assets"][0])))
        r4 == Then(r3, beginning, <<"accounts_payable">>,
                   LAMBDA d :
                   SetCell(SetCell(d, "Change_AP", 0,
                               LiabilityChange(beginning.accounts_payable,
                                               bs["Accounts_Payable"][0])),
                           "Change_Deferred_Income", 0,
                           LiabilityChange(BeginningDeferredIncome,
                                           bs["Deferred_Income"][0])))
        r5 == Then(r4, beginning,
                   FirstAbsent(beginning, <<"accrued_expenses", "accrued_taxes",
                                            "other_current_liabilities">>),
                   LAMBDA d : SetCell(d, "Change_Other_Current_Liab", 0,
                       LiabilityChange(beginning.accrued_expenses + beginning.accrued_taxes
                                       + beginning.other_current_liabilities,
                                       CombinedOCL(bs, 0))))
    IN  r5

\* Lines 302-315: period p > 0 against period p - 1 of the balance sheet.
LaterChanges(df, bs, p) ==
    LET d1 == SetCell(df, "Change_AR", p,
                  AssetChange(bs["Accounts_Receivable"][p - 1], bs["Accounts_Receivable"][p]))
        d2 == SetCell(d1, "Change_Inventory", p,
                  AssetChange(bs["Inventory"][p - 1], bs["Inventory"][p]))
        d3 == SetCell(d2, "Change_Other_Current_Assets", p,
                  AssetChange(bs["Other_Current_Assets"][p - 1], bs["Other_Current_Assets"][p]))
        d4 == SetCell(d3, "Change_AP", p,
                  LiabilityChange(bs["Accounts_Payable"][p - 1], bs["Accounts_Payable"][p]))
        d5 == SetCell(d4, "Change_Deferred_Income", p,
                  LiabilityChange(bs["Deferred_Income"][p - 1], bs["Deferred_Income"][p]))
        d6 == SetCell(d5, "Change_Other_Current_Liab", p,
                  LiabilityChange(CombinedOCL(bs, p - 1), CombinedOCL(bs, p)))
    IN  Ok(d6)

\* A net change in cash that leaves operations out.
NetChangeWithoutOperations(operations, investing, financing) ==
    investing + financing

\* Net_Change_Cash from the three sections.
NetChange(operations, investing, financing) == operations + investing + financing

\* Lines 317-337: the section totals and the cash columns before the loop.
CashFlowTotals(df) ==
    LET n == n_periods
        d1 == SetCol(df, "Cash_from_Operations",
                  ColSum(df, <<"Net_Income", "Depreciation", "Amortization">>
                             \o ChangeColumns))
        d2 == SetConst(d1, "Change_Fixed_Assets", n, 0)
        d3 == SetCol(d2, "Cash_from_Investing",
                  [r \in RowsSet(d2, {"Change_Fixed_Assets"}) |->
                      -d2["Change_Fixed_Assets"][r]])
        d4 == SetConst(d3, "Change_Credit_Cards_Notes", n, 0)
        d5 == SetConst(d4, "Change_Debt", n, 0)
        d6 == SetCol(d5, "Cash_from_Financing",
                  ColAdd(d5, "Change_Credit_Cards_Notes", "Change_Debt"))
        d7 == SetCol(d6, "Net_Change_Cash",
                  [r \in RowsSet(d6, {"Cash_from_Operations", "Cash_from_Investing",
                                      "Cash_from_Financing"}) |->
                      NetChange(d6["Cash_from_Operations"][r],
                                d6["Cash_from_Investing"][r],
                                d6["Cash_from_Financing"][r])])
        d8 == SetConst(d7, "Beginning_Cash", n, 0)
        d9 == SetConst(d8, "Ending_Cash", n, 0)
    IN  Then(Ok(d9), balance_config.beginning_balances, <<"cash">>, LAMBDA d : d)

\* Beginning_Cash that never carries the prior period's ending cash.
BeginningCashNoCarry(df, p) == balance_config.beginning_balances.cash

\* Beginning_Cash that opens with the ending cash of the files on disk, when
\* a run before this one has written them.
BeginningCashFromFiles(df, p) ==
    IF p > 0 THEN df["Ending_Cash"][p - 1]
    ELSE IF exported # EmptyFrame
    THEN exported.cash_flow_statement["Ending_Cash"][n_periods - 1]
    ELSE balance_config.beginning_balances.cash

\* Beginning_Cash at period p.
BeginningCash(df, p) ==
    IF p = 0 THEN balance_config.beginning_balances.cash
    ELSE df["Ending_Cash"][p - 1]

\* An ending cash that is the period's net change alone.
EndingCashWithoutBeginning(beginning_cash, net_change) == net_change

\* Ending_Cash at period p.
EndingCash(beginning_cash, net_change) == beginning_cash + net_change

\* A pass of the cash loop that also restates the period's Net_Change_Cash
\* as its Ending_Cash.
CashStepRestating(df, p) ==
    Pipe(SetCell(df, "Beginning_Cash", p, BeginningCash(df, p)),
         LAMBDA d : SetCell(
             SetCell(d, "Ending_Cash", p,
                 EndingCash(d["Beginning_Cash"][p], d["Net_Change_Cash"][p])),
             "Net_Change_Cash", p,
             EndingCash(d["Beginning_Cash"][p], d["Net_Change_Cash"][p])))

\* Lines 339-344: one pass of the cash loop.
CashStep(df, p) ==
    Pipe(SetCell(df, "Beginning_Cash", p, BeginningCash(df, p)),
         LAMBDA d : SetCell(d, "Ending_Cash", p,
                        EndingCash(d["Beginning_Cash"][p], d["Net_Change_Cash"][p])))

EndCashFlow(res, to) ==
    \E r \in {res} :
        /\ cash_flow_stmt' = r.df
        /\ IF r.err = NoError
           THEN pc' = to /\ error' = error
           ELSE pc' = "error" /\ error' = r.err

\* Lines 276-315 from pass p on: the passes of the working-capital loop.
RECURSIVE ChangeLoopFrom(_, _, _)
ChangeLoopFrom(res, bs, p) ==
    IF p >= n_periods THEN res
    ELSE ChangeLoopFrom(
             AndThen(res, LAMBDA d : IF p = 0 THEN FirstChanges(d, bs)
                                     ELSE LaterChanges(d, bs, p)),
             bs, p + 1)

\* Lines 338-344 from pass p on: the passes of the cash loop.
RECURSIVE CashLoopFrom(_, _)
CashLoopFrom(df, p) ==
    IF p >= n_periods THEN df ELSE CashLoopFrom(CashStep(df, p), p + 1)

\* build_cash_flow_statement as a function of the balance sheet it is given
\* (the dates and the income statement are those of the run).
build_cash_flow_statement(bs) ==
    AndThen(AndThen(ChangeLoopFrom(
                        CashFlowBegin(SetCol(EmptyFrame, "Date", DateColumn)), bs, 0),
                    CashFlowTotals),
            LAMBDA d : Ok(CashLoopFrom(d, 0)))

CF_Begin ==
    /\ pc = "cf_begin"
    /\ EndCashFlow(CashFlowBegin(SetCol(EmptyFrame, "Date", DateColumn)),
                   IF 0 < n_periods THEN "cf_change_loop" ELSE "cf_totals")
    /\ i' = 0
    /\ UNCHANGED <<config, dates, income_stmt, balance_sheet, exported, report>>

\* Lines 276-315: one pass of the working-capital loop.
CF_ChangeLoop ==
    /\ pc = "cf_change_loop"
    /\ i < n_periods
    /\ EndCashFlow(IF i = 0 THEN FirstChanges(cash_flow_stmt, balance_sheet)
                   ELSE LaterChanges(cash_flow_stmt, balance_sheet, i),
                   IF i + 1 < n_periods THEN "cf_change_loop" ELSE "cf_totals")
    /\ i' = i + 1
    /\ UNCHANGED <<config, dates, income_stmt, balance_sheet, exported, report>>

CF_Totals ==
    /\ pc = "cf_totals"
    /\ EndCashFlow(CashFlowTotals(cash_flow_stmt),
                   IF 0 < n_periods THEN "cf_cash_loop" ELSE "backfill")
    /\ i' = 0
    /\ UNCHANGED <<config, dates, income_stmt, balance_sheet, exported, report>>

\* Lines 338-344: one pass of the cash loop.
CF_CashLoop ==
    /\ pc = "cf_cash_loop"
    /\ i < n_periods
    /\ cash_flow_stmt' = CashStep(cash_flow_stmt, i)
    /\ pc' = IF i + 1 < n_periods THEN "cf_cash_loop" ELSE "backfill"
    /\ i' = i + 1
    /\ UNCHANGED <<config, dates, income_stmt, balance_sheet, exported, report, error>>

---------------------------------------------------------------------------
(* main: the second pass of the balance sheet, the export, the check. *)

\* A second pass that totals the sheet and leaves the placeholder in Cash.
SecondPassKeepingPlaceholder(bs, cf) ==
    LET d2 == SetCol(bs, "Total_Current_Assets",
                  ColSum(bs, <<"Cash", "Accounts_Receivable", "Inventory",
                               "Other_Current_Assets">>))
        d3 == SetCol(d2, "Total_Assets",
                  ColAdd(d2, "Total_Current_Assets", "Total_Fixed_Assets"))
        d4 == SetCol(d3, "Total_Liabilities_Equity",
                  ColAdd(d3, "Total_Liabilities", "Total_Equity"))
    IN  SetCol(d4, "Balance_Check",
               ColSub(d4, "Total_Assets", "Total_Liabilities_Equity"))

\* Lines 376-381.
SecondPass(bs, cf) ==
    LET d1 == SetCol(bs, "Cash", cf["Ending_Cash"])
        d2 == SetCol(d1, "Total_Current_Assets",
                  ColSum(d1, <<"Cash", "Accounts_Receivable", "Inventory",
                               "Other_Current_Assets">>))
        d3 == SetCol(d2, "Total_Assets",
                  ColAdd(d2, "Total_Current_Assets", "Total_Fixed_Assets"))
        d4 == SetCol(d3, "Total_Liabilities_Equity",
                  ColAdd(d3, "Total_Liabilities", "Total_Equity"))
        d5 == SetCol(d4, "Balance_Check",
                  ColSub(d4, "Total_Assets", "Total_Liabilities_Equity"))
    IN  d5

\* A main that goes from the cash-flow statement straight to the export.
BackfillSkipped ==
    /\ pc = "backfill"
    /\ pc' = "export"
    /\ UNCHANGED <<config, i, dates, income_stmt, balance_sheet, cash_flow_stmt,
                   exported, report, error>>

Backfill ==
    /\ pc = "backfill"
    /\ balance_sheet' = SecondPass(balance_sheet, cash_flow_stmt)
    /\ pc' = "export"
    /\ UNCHANGED <<config, i, dates, income_stmt, cash_flow_stmt, exported,
                   report, error>>

\* Lines 385-387: the three to_csv calls.
Export ==
    /\ pc = "export"
    /\ exported' = [income_statement |-> income_stmt,
                    balance_sheet |-> balance_sheet,
                    cash_flow_statement |-> cash_flow_stmt]
    /\ pc' = "check"
    /\ UNCHANGED <<config, i, dates, income_stmt, balance_sheet, cash_flow_stmt,
                   report, error>>

\* Series.abs().max().
MaxAbs(column) ==
    CHOOSE m \in {Abs(column[r]) : r \in DOMAIN column} :
        \A r \in DOMAIN column : Abs(column[r]) <= m

\* max_imbalance > 0.01, in hundredths.
ExceedsTolerance(max_imbalance) == max_imbalance * 100 > 1

\* A balance check that ends the run with an error when the tolerance is
\* exceeded.
BalanceCheckRaising ==
    /\ pc = "check"
    /\ \E m \in {MaxAbs(balance_sheet["Balance_Check"])} :
          IF ExceedsTolerance(m)
          THEN pc' = "error" /\ error' = ValueError /\ report' = report
          ELSE /\ pc' = "done" /\ error' = error
               /\ report' = [message |-> "balanced", max_imbalance |-> m]
    /\ UNCHANGED <<config, i, dates, income_stmt, balance_sheet, cash_flow_stmt,
                   exported>>

\* Lines 411-415.
BalanceCheck ==
    /\ pc = "check"
    /\ \E m \in {MaxAbs(balance_sheet["Balance_Check"])} :
          report' = [message |-> IF ExceedsTolerance(m) THEN "warning" ELSE "balanced",
                     max_imbalance |-> m]
    /\ pc' = "done"
    /\ UNCHANGED <<config, i, dates, income_stmt, balance_sheet, cash_flow_stmt,
                   exported, error>>

Next ==
    \/ LoadConfig
    \/ CreateDates
    \/ IS_Begin
    \/ IS_RevenueLoop
    \/ IS_SalesReturns
    \/ IS_CostLoop
    \/ IS_Totals
    \/ BS_Build
    \/ CF_Begin
    \/ CF_ChangeLoop
    \/ CF_Totals
    \/ CF_CashLoop
    \/ Backfill
    \/ Export
    \/ BalanceCheck

---------------------------------------------------------------------------
(* generate_financial_model_excel.py: the Income Statement sheet.  Each      *)
(* operator is the value the formula written into the cell of a line at    *)
(* period p evaluates to, for the configuration of the run.                *)

\* write_growth_series: "=initial" at period 0, "=<previous cell>*growth"
\* afterwards.
RECURSIVE write_growth_series(_, _, _)
write_growth_series(initial, growth, p) ==
    IF p = 0 THEN initial ELSE write_growth_series(initial, growth, p - 1) * growth

\* write_constant_series: "=ref" or "=-ref" in every period.
write_constant_series(value, sign) == IF sign < 0 THEN -value ELSE value

\* The revenue rows, one per stream.
SheetRevenue(key, p) ==
    write_growth_series(income_config.revenue_streams[key].initial_value,
                        income_config.revenue_streams[key].growth_rate, p)

SheetRevenueSum(p) ==
    SheetRevenue("stream_1", p) + SheetRevenue("stream_2", p)
    + SheetRevenue("stream_3", p) + SheetRevenue("stream_4", p)

\* "(-) Sales Returns": the initial value at period 0, then
\* "=-SUM(revenue rows)*rate".
SheetSalesReturns(p) ==
    IF p = 0 THEN income_config.sales_returns.initial_value
    ELSE (-SheetRevenueSum(p)) * income_config.sales_returns.rate

\* "Net Revenue": "=SUM(first revenue row : sales returns row)".
SheetNetRevenue(p) == SheetRevenueSum(p) + SheetSalesReturns(p)

SheetVariableCosts(p) ==
    write_growth_series(income_config.cogs.variable_costs.initial_value,
                        income_config.cogs.variable_costs.growth_rate, p)

\* "Fixed Cost Period 5+" of the Assumptions sheet:
\* changes.get("period_5", initial_value).
fixed_after_value ==
    LET fixed_costs == income_config.cogs.fixed_costs
    IN  IF Has(fixed_costs, "changes") /\ 5 \in DOMAIN fixed_costs.changes
        THEN fixed_costs.changes[5]
        ELSE fixed_costs.initial_value

\* "Fixed Costs": the initial value while period < 4, then the period-5+
\* value.
SheetFixedCosts(p) ==
    IF p < 4 THEN income_config.cogs.fixed_costs.initial_value ELSE fixed_after_value

SheetTotalCOGS(p) == SheetVariableCosts(p) + SheetFixedCosts(p)

SheetGrossProfit(p) == SheetNetRevenue(p) - SheetTotalCOGS(p)

\* "Gross Margin %": "=IF(net=0,0,gross/net)".
SheetGrossMargin(p) ==
    IF SheetNetRevenue(p) = 0 THEN [class |-> "finite", num |-> 0, den |-> 1]
    ELSE FloatDiv(SheetGrossProfit(p), SheetNetRevenue(p))

\* "Total Operating Expenses": "=SUM(G&A row : last salary row)".
SheetTotalOperatingExpenses(p) ==
    LET opex == income_config.operating_expenses
    IN  write_constant_series(opex.ga_expenses, 1)
        + SumSeq([k \in DOMAIN SalaryKeys |->
                     write_constant_series(opex.salaries[SalaryKeys[k]], 1)])

SheetEBITDA(p) == SheetGrossProfit(p) - SheetTotalOperatingExpenses(p)

\* other_items: the six rows with their signs, and their SUM.
SheetTotalOther(p) ==
    LET other == income_config.other_income_expenses
        da == income_config.depreciation_amortization
    IN  write_constant_series(other.interest_income, 1)
        + write_constant_series(other.other_income, 1)
        + write_constant_series(other.interest_expense, -1)
        + write_constant_series(other.bad_debt, -1)
        + write_constant_series(da.depreciation, -1)
        + write_constant_series(da.amortization, -1)

\* "Net Income Before Taxes": "=EBITDA + Total Other".
SheetNetIncomeBeforeTaxes(p) == SheetEBITDA(p) + SheetTotalOther(p)

\* "Income Taxes": written with sign -1.
SheetIncomeTaxes(p) == write_constant_series(income_config.taxes.income_taxes, -1)

\* "Net Income": "=Net Income Before Taxes + Income Taxes".
SheetNetIncome(p) == SheetNetIncomeBeforeTaxes(p) + SheetIncomeTaxes(p)

---------------------------------------------------------------------------
Spec == Init /\ [][Next]_vars

\* The program is started again on the same configuration file: a new
\* process, whose module level loads the file anew and whose tables do not
\* exist yet.  The files the run before has written are still on disk.
Rerun ==
    /\ pc = "done"
    /\ pc' = "load"
    /\ i' = 0
    /\ dates' = <<>>
    /\ income_stmt' = EmptyFrame
    /\ balance_sheet' = EmptyFrame
    /\ cash_flow_stmt' = EmptyFrame
    /\ report' = [message |-> "none", max_imbalance |-> 0]
    /\ UNCHANGED <<config, exported, error>>

RerunNext == Next \/ Rerun

\* Runs of the program one after the other on one configuration.
RerunSpec == Init /\ [][RerunNext]_vars

---------------------------------------------------------------------------
(* Properties.  Each is stated on the tables as the run has made them so   *)
(* far: a cell is spoken of once the statement that computes it has run.   *)

\* The second pass of the balance sheet has run.
Closed == pc \in {"export", "check", "done"}

\* The income statement is complete.
IncomeBuilt ==
    pc \in {"bs_build", "cf_begin", "cf_change_loop", "cf_totals", "cf_cash_loop",
            "backfill", "export", "check", "done"}

\* |x| <= 0.01, in hundredths.
WithinTolerance(x) == Abs(x) * 100 <= 1

\* Assets less liabilities and equity as of the instant before period 0:
\* the beginning balances, the gross fixed assets, the constant liabilities
\* and equity, with deferred income at the amount the cash-flow statement
\* compares period 0 with.
OpeningImbalance ==
    LET b == balance_config.beginning_balances
        f == balance_config.fixed_assets
        l == balance_config.liabilities_constants
        e == balance_config.equity
    IN  (b.cash + b.accounts_receivable + b.inventory + b.other_receivable
         + b.prepaid_expenses + b.prepaid_insurance + b.unbilled_revenue
         + b.other_current_assets + f.ppe_gross + f.intangibles_gross)
        - (b.accounts_payable + BeginningDeferredIncome + b.accrued_expenses
           + b.accrued_taxes + b.other_current_liabilities + l.credit_cards
           + l.notes_payable + l.long_term_debt + l.deferred_tax_liabilities
           + l.other_liabilities + e.paid_in_capital + e.common_stock
           + e.preferred_stock + e.capital_round_1 + e.capital_round_2
           + e.capital_round_3)

Balanced(p) ==
    WithinTolerance(balance_sheet["Total_Assets"][p]
                    - (balance_sheet["Total_Liabilities"][p]
                       + balance_sheet["Total_Equity"][p]))

\* C1, as claimed: for every assumption set and every period p, after the
\* cash back-fill, Total_Assets[p] is within 0.01 of Total_Liabilities[p] +
\* Total_Equity[p]; the input data cannot unbalance the sheet.
C1_BalancedForEveryInput ==
    Closed => \A p \in Rows(n_periods) : Balanced(p)

\* C1, amended: after the cash back-fill the sheet balances in every period
\* exactly when the opening position of the assumption set balances; an
\* assumption set whose opening position does not balance gives a sheet that
\* does not balance.
C1_BalancedIffOpeningBalanced ==
    Closed =>
        /\ WithinTolerance(OpeningImbalance) => \A p \in Rows(n_periods) : Balanced(p)
        /\ ~WithinTolerance(OpeningImbalance) => \A p \in Rows(n_periods) : ~Balanced(p)

\* C1, witness: a finished run of several periods whose working-capital
\* balances move, from a balanced opening position.
C1_Witness ==
    /\ pc = "done"
    /\ n_periods > 2
    /\ OpeningImbalance = 0
    /\ cash_flow_stmt["Change_AP"][1] # 0
    /\ cash_flow_stmt["Change_AR"][2] # 0
    /\ \A p \in Rows(n_periods) : Balanced(p)

\* The fixed-cost rule of the specification: the override with the largest
\* trigger period <= p, else the initial value.  Period 0 is the initial
\* value, so the triggers that count are those from period 1 on.
LatestOverride(fixed_costs, p) ==
    LET triggers == IF Has(fixed_costs, "changes")
                    THEN {k \in DOMAIN fixed_costs.changes : 1 <= k /\ k <= p}
                    ELSE {}
    IN  IF triggers = {} THEN fixed_costs.initial_value
        ELSE fixed_costs.changes[CHOOSE k \in triggers : \A j \in triggers : j <= k]

\* C2, as claimed: Fixed_Costs[0] is the configured initial value and, for
\* p >= 1, Fixed_Costs[p] is the value of the override with the largest
\* trigger period <= p, or the initial value when there is none.
C2_LatestOverrideWins ==
    \A p \in Rows(n_periods) :
        IsSet(income_stmt, "Fixed_Costs", p) =>
            income_stmt["Fixed_Costs"][p]
                = LatestOverride(income_config.cogs.fixed_costs, p)

\* C3, as claimed: Net_Income_Before_Taxes[p] = EBITDA[p] + interest income
\* + other income - interest expense - bad debt - depreciation - amortization,
\* and Net_Income[p] = Net_Income_Before_Taxes[p] - Income_Taxes.
C3_NaturalSigns ==
    IncomeBuilt =>
        \A p \in Rows(n_periods) :
            LET o == income_config.other_income_expenses
                da == income_config.depreciation_amortization
            IN  /\ income_stmt["Net_Income_Before_Taxes"][p]
                     = income_stmt["EBITDA"][p]
                       + (o.interest_income + o.other_income - o.interest_expense
                          - o.bad_debt - da.depreciation - da.amortization)
                /\ income_stmt["Net_Income"][p]
                     = income_stmt["Net_Income_Before_Taxes"][p]
                       - income_config.taxes.income_taxes

\* C4, as claimed: where Net_Revenue[p] is 0, Gross_Margin_Pct[p] is 0 (no
\* infinity, no NaN); elsewhere it is Gross_Profit[p] / Net_Revenue[p].
C4_MarginSafe ==
    \A p \in Rows(n_periods) :
        IsSet(income_stmt, "Gross_Margin_Pct", p) =>
            LET m == income_stmt["Gross_Margin_Pct"][p]
            IN  /\ m.class = "finite"
                /\ IF income_stmt["Net_Revenue"][p] = 0
                   THEN m.num = 0
                   ELSE /\ m.num = income_stmt["Gross_Profit"][p]
                        /\ m.den = income_stmt["Net_Revenue"][p]

\* The periods whose cash cells the cash loop has written.
CashRows ==
    IF pc = "cf_cash_loop" THEN Rows(i)
    ELSE IF pc \in {"backfill", "export", "check", "done"} THEN Rows(n_periods)
    ELSE {}

\* C5: Ending_Cash[p] = Beginning_Cash[p] + Net_Change_Cash[p] for every
\* period p; Beginning_Cash[0] is the configured beginning cash and
\* Beginning_Cash[p] = Ending_Cash[p-1] for p > 0.
C5_CashRecurrence ==
    \A p \in CashRows :
        /\ cash_flow_stmt["Ending_Cash"][p]
             = cash_flow_stmt["Beginning_Cash"][p] + cash_flow_stmt["Net_Change_Cash"][p]
        /\ p = 0 => cash_flow_stmt["Beginning_Cash"][p]
                      = balance_config.beginning_balances.cash
        /\ p > 0 => cash_flow_stmt["Beginning_Cash"][p]
                      = cash_flow_stmt["Ending_Cash"][p - 1]

\* C5, witness: a finished run of several periods in which cash moves.
C5_Witness ==
    /\ pc = "done"
    /\ n_periods > 2
    /\ cash_flow_stmt["Net_Change_Cash"][1] # 0
    /\ cash_flow_stmt["Beginning_Cash"][2] = cash_flow_stmt["Ending_Cash"][1]
    /\ cash_flow_stmt["Beginning_Cash"][2] # balance_config.beginning_balances.cash

\* The periods whose working-capital changes the change loop has written.
ChangeRows ==
    IF pc = "cf_change_loop" THEN Rows(i)
    ELSE IF pc \in {"cf_totals", "cf_cash_loop", "backfill", "export", "check", "done"}
    THEN Rows(n_periods)
    ELSE {}

\* The balance a change at period p is measured from: the configured balance
\* at p = 0, the balance sheet at p - 1 afterwards.
Prior(configured, line, p) ==
    IF p = 0 THEN configured ELSE balance_sheet[line][p - 1]

\* C6, as claimed: every working-capital change is prior - current for an
\* asset line and current - prior for a liability line, where prior is the
\* configured balance at p = 0 (for other current assets the sum of the five
\* beginning components) and the balance-sheet value at p - 1 for p > 0.
C6_SignConvention ==
    \A p \in ChangeRows :
        LET b == balance_config.beginning_balances
            l == balance_config.liabilities_constants
            bs == balance_sheet
            cf == cash_flow_stmt
        IN  /\ cf["Change_AR"][p]
                 = Prior(b.accounts_receivable, "Accounts_Receivable", p)
                   - bs["Accounts_Receivable"][p]
            /\ cf["Change_Inventory"][p]
                 = Prior(b.inventory, "Inventory", p) - bs["Inventory"][p]
            /\ cf["Change_Other_Current_Assets"][p]
                 = Prior(b.other_receivable + b.prepaid_expenses + b.prepaid_insurance
                         + b.unbilled_revenue + b.other_current_assets,
                         "Other_Current_Assets", p)
                   - bs["Other_Current_Assets"][p]
            /\ cf["Change_AP"][p]
                 = bs["Accounts_Payable"][p]
                   - Prior(b.accounts_payable, "Accounts_Payable", p)
            /\ cf["Change_Deferred_Income"][p]
                 = bs["Deferred_Income"][p]
                   - Prior(l.deferred_income, "Deferred_Income", p)
            /\ cf["Change_Other_Current_Liab"][p]
                 = (bs["Accrued_Expenses"][p] + bs["Accrued_Taxes"][p]
                    + bs["Other_Current_Liab"][p])
                   - (Prior(b.accrued_expenses, "Accrued_Expenses", p)
                      + Prior(b.accrued_taxes, "Accrued_Taxes", p)
                      + Prior(b.other_current_liabilities, "Other_Current_Liab", p))

\* The balance sheet's first pass has run.
BalanceBuilt ==
    pc \in {"cf_begin", "cf_change_loop", "cf_totals", "cf_cash_loop",
            "backfill", "export", "check", "done"}

\* C7: Retained_Earnings[0] = Net_Income[0] and, for p > 0,
\* Retained_Earnings[p] = Retained_Earnings[p-1] + Net_Income[p]: the running
\* total of net income from period 0, never reset.
C7_RetainedEarnings ==
    BalanceBuilt =>
        \A p \in Rows(n_periods) :
            balance_sheet["Retained_Earnings"][p]
                = income_stmt["Net_Income"][p]
                  + (IF p = 0 THEN 0 ELSE balance_sheet["Retained_Earnings"][p - 1])

\* C7, witness: a finished run whose retained earnings at period 2 are the
\* net income of periods 0, 1 and 2 together.
C7_Witness ==
    /\ pc = "done"
    /\ n_periods > 2
    /\ income_stmt["Net_Income"][0] # 0
    /\ income_stmt["Net_Income"][1] # income_stmt["Net_Income"][0]
    /\ balance_sheet["Retained_Earnings"][2]
         = income_stmt["Net_Income"][0] + income_stmt["Net_Income"][1]
           + income_stmt["Net_Income"][2]

GrowthColumns ==
    {"Revenue_Stream_1", "Revenue_Stream_2", "Revenue_Stream_3",
     "Revenue_Stream_4", "Variable_Costs"}

\* The configured initial value and growth rate of a growth line.
GrowthConfig(col) ==
    CASE col = "Revenue_Stream_1" -> income_config.revenue_streams.stream_1
      [] col = "Revenue_Stream_2" -> income_config.revenue_streams.stream_2
      [] col = "Revenue_Stream_3" -> income_config.revenue_streams.stream_3
      [] col = "Revenue_Stream_4" -> income_config.revenue_streams.stream_4
      [] col = "Variable_Costs" -> income_config.cogs.variable_costs

\* C8: each revenue stream and Variable_Costs is its configured initial value
\* at period 0 and its value at p - 1 times its growth rate at every p > 0.
C8_GrowthRecurrence ==
    \A col \in GrowthColumns \cap DOMAIN income_stmt :
        \A p \in DOMAIN income_stmt[col] :
            income_stmt[col][p]
                = IF p = 0 THEN GrowthConfig(col).initial_value
                  ELSE income_stmt[col][p - 1] * GrowthConfig(col).growth_rate

\* C8, witness: a finished run in which a stream with growth factor 2 has
\* doubled twice by period 2 and variable costs have grown as well.
C8_Witness ==
    /\ pc = "done"
    /\ n_periods > 2
    /\ income_config.revenue_streams.stream_1.growth_rate = 2
    /\ income_stmt["Revenue_Stream_1"][0] = 50000
    /\ income_stmt["Revenue_Stream_1"][2] = 200000
    /\ income_stmt["Variable_Costs"][2] = 4 * income_stmt["Variable_Costs"][0]

\* Sales returns and net revenue have been computed.
SalesBuilt ==
    pc \in {"is_cost_loop", "is_totals"} \/ IncomeBuilt

\* C9: Sales_Returns[0] is the configured actual whatever the rate and the
\* revenue; Sales_Returns[p] = -rate * (sum of the revenue streams at p) for
\* p > 0; Net_Revenue[p] = sum of the revenue streams at p + Sales_Returns[p].
C9_SalesReturns ==
    SalesBuilt =>
        \A p \in Rows(n_periods) :
            LET sr == income_config.sales_returns
                revenue == income_stmt["Revenue_Stream_1"][p]
                           + income_stmt["Revenue_Stream_2"][p]
                           + income_stmt["Revenue_Stream_3"][p]
                           + income_stmt["Revenue_Stream_4"][p]
            IN  /\ income_stmt["Sales_Returns"][p]
                     = IF p = 0 THEN sr.initial_value ELSE 0 - sr.rate * revenue
                /\ income_stmt["Net_Revenue"][p]
                     = revenue + income_stmt["Sales_Returns"][p]

\* C9, witness: a finished run with a non-zero rate, where period 0 holds the
\* actual (not the formula's value) and period 1 the formula's value.
C9_Witness ==
    /\ pc = "done"
    /\ n_periods > 1
    /\ income_config.sales_returns.rate = 1
    /\ income_stmt["Sales_Returns"][0] = -500
    /\ income_stmt["Revenue_Stream_1"][0] = 50000
    /\ income_stmt["Sales_Returns"][1] < 0
    /\ income_stmt["Net_Revenue"][1] = 0

\* No line item of any statement has been computed.
NoRowComputed ==
    /\ DOMAIN income_stmt \subseteq {"Date"}
    /\ DOMAIN balance_sheet \subseteq {"Date"}
    /\ DOMAIN cash_flow_stmt \subseteq {"Date"}

\* C10, as claimed: when a required assumption key is missing, the run stops
\* with the configuration error before any statement row is computed.
C10_FailFast ==
    error.type = "KeyError" => NoRowComputed

\* The period-indexed input arrays of the configuration.
PeriodArrays ==
    LET pv == balance_config.period_values
        oca == pv.other_current_assets_components
    IN  { pv.inventory, pv.accounts_receivable, pv.accounts_payable,
          pv.accrued_expenses, pv.other_current_liabilities,
          oca.other_receivable, oca.prepaid_expenses, oca.prepaid_insurance,
          oca.unbilled_revenue, oca.other_current_assets }

\* The configuration holds every key the first-pass balance sheet reads
\* its period arrays under.
HasPeriodArrays ==
    /\ MissingKey(config, <<"balance_sheet", "period_values", "inventory">>) = ""
    /\ MissingKey(config, <<"model_settings", "num_periods">>) = ""

\* A table has been written to a file, or the run has reported its result.
OutputProduced == exported # EmptyFrame \/ pc = "done"

\* C11, as claimed: when a period array is shorter or longer than the period
\* count, the run ends in an error and produces no output.
C11_ArrayLengthChecked ==
    (HasPeriodArrays /\ \E a \in PeriodArrays : Len(a) # NUM_PERIODS)
        => ~OutputProduced

\* An assumption set with every required key and period arrays of the
\* period count's length.
ValidConfig ==
    /\ \A path \in OptionalPaths : MissingKey(config, path) = ""
    /\ \A a \in PeriodArrays : Len(a) = NUM_PERIODS

\* Every column of the table holds a value in every period.
Complete(table) ==
    \A c \in DOMAIN table : DOMAIN table[c] = Rows(NUM_PERIODS)

\* The three tables have been written, each complete down to its last line.
Emitted ==
    /\ DOMAIN exported
         = {"income_statement", "balance_sheet", "cash_flow_statement"}
    /\ "Net_Income" \in DOMAIN exported.income_statement
    /\ "Balance_Check" \in DOMAIN exported.balance_sheet
    /\ "Ending_Cash" \in DOMAIN exported.cash_flow_statement
    /\ Complete(exported.income_statement)
    /\ Complete(exported.balance_sheet)
    /\ Complete(exported.cash_flow_statement)

\* The place of a statement in the program text.
Stage ==
    CASE pc = "load" -> 0
      [] pc = "main" -> 1
      [] pc = "is_begin" -> 2
      [] pc = "is_revenue_loop" -> 3
      [] pc = "is_sales_returns" -> 4
      [] pc = "is_cost_loop" -> 5
      [] pc = "is_totals" -> 6
      [] pc = "bs_build" -> 7
      [] pc = "cf_begin" -> 8
      [] pc = "cf_change_loop" -> 9
      [] pc = "cf_totals" -> 10
      [] pc = "cf_cash_loop" -> 11
      [] pc = "backfill" -> 12
      [] pc = "export" -> 13
      [] pc = "check" -> 14
      [] pc \in {"done", "error"} -> 15

\* A bound on the statements the run has still to execute: the stages ahead,
\* each taken as a full loop, and the passes left of the loop in progress.
LoopStatements ==
    {"is_revenue_loop", "is_cost_loop", "cf_change_loop", "cf_cash_loop"}

StepsLeft ==
    (15 - Stage) * (MaxPeriods + 2)
    + (IF pc \in LoopStatements THEN n_periods - i ELSE 0)

\* The run has not ended and the statement at pc can run: no exception has
\* been raised, and a loop in progress has a pass left.
CanStep ==
    /\ pc \notin {"done", "error"}
    /\ error = NoError
    /\ pc \in LoopStatements => i < n_periods

\* C12: for every valid assumption set the run terminates having emitted the
\* three complete tables, whether or not a period's Balance_Check exceeds the
\* tolerance.  The tables are written before the check runs; the check only
\* selects the pass message or the warning; a run of a valid set is never
\* stopped short of the end (it has ended with the tables emitted, or its
\* next statement can run); and every step lowers a natural-number measure,
\* so the end is reached.
C12_CheckNeverBlocks ==
    /\ [](pc \in {"check", "done"} => Emitted)
    /\ [](pc = "done" => report.message \in {"balanced", "warning"})
    /\ [](ValidConfig => (pc = "done" /\ Emitted) \/ CanStep)
    /\ [](StepsLeft >= 0)
    /\ [][StepsLeft' < StepsLeft]_vars

\* C12, witness: a finished run of a valid assumption set whose balance check
\* exceeds the tolerance, with the three complete tables written.
C12_Witness ==
    /\ pc = "done"
    /\ ValidConfig
    /\ report.message = "warning"
    /\ report.max_imbalance > 0
    /\ Emitted

\* The periods whose Balance_Check exceeds the tolerance.
PeriodsOverTolerance ==
    {p \in Rows(n_periods) : ExceedsTolerance(Abs(balance_sheet["Balance_Check"][p]))}

\* C13, as claimed: the run reports a warning exactly when some period's
\* |Balance_Check| exceeds 0.01, and a pass otherwise; the warning carries the
\* maximum imbalance and the periods in which the tolerance is exceeded.
C13_WarningNamesPeriods ==
    pc = "done" =>
        /\ report.message = (IF PeriodsOverTolerance # {} THEN "warning" ELSE "balanced")
        /\ report.message = "warning" =>
              /\ report.max_imbalance = MaxAbs(balance_sheet["Balance_Check"])
              /\ Has(report, "periods")
              /\ report.periods = PeriodsOverTolerance

\* Amounts a Cash line may hold in place of the placeholder.
OtherCashValues == {1, 5000}

\* The balance sheet with its Cash line replaced, a different amount in
\* every period.
WithCash(bs, v) == SetCol(bs, "Cash", [r \in Rows(n_periods) |-> v * (r + 1)])

\* C14: build_cash_flow_statement gives the same table (Ending_Cash
\* included) for balance sheets that differ only in their Cash line: the
\* table the run has built from the placeholder sheet is the table the
\* function gives for that sheet with any other Cash line.
C14_CashFlowIgnoresCash ==
    pc = "backfill" =>
        /\ build_cash_flow_statement(balance_sheet).df = cash_flow_stmt
        /\ \A v \in OtherCashValues :
              build_cash_flow_statement(WithCash(balance_sheet, v)).df = cash_flow_stmt

\* C14, witness: the cash-flow statement of a run of several periods is
\* finished, cash has moved, the balance sheet still holds the placeholder,
\* and the function gives the same table for a sheet with another Cash line.
C14_Witness ==
    /\ pc = "backfill"
    /\ n_periods > 2
    /\ balance_sheet["Cash"][1] = 0
    /\ cash_flow_stmt["Ending_Cash"][1] # cash_flow_stmt["Ending_Cash"][0]
    /\ cash_flow_stmt["Change_Other_Current_Liab"][1] # 0
    /\ WithCash(balance_sheet, 5000)["Cash"][1] = 10000
    /\ build_cash_flow_statement(WithCash(balance_sheet, 5000)).df = cash_flow_stmt

\* C15: after the second pass, in every period, Cash is the cash-flow
\* statement's Ending_Cash; Total_Current_Assets = Cash + Accounts_Receivable
\* + Inventory + Other_Current_Assets; Total_Assets = Total_Current_Assets +
\* Total_Fixed_Assets; Total_Liabilities_Equity = Total_Liabilities +
\* Total_Equity; Balance_Check = Total_Assets - Total_Liabilities_Equity.
C15_SecondPass ==
    Closed =>
        \A p \in Rows(n_periods) :
            LET bs == balance_sheet
            IN  /\ bs["Cash"][p] = cash_flow_stmt["Ending_Cash"][p]
                /\ bs["Total_Current_Assets"][p]
                     = bs["Cash"][p] + bs["Accounts_Receivable"][p]
                       + bs["Inventory"][p] + bs["Other_Current_Assets"][p]
                /\ bs["Total_Assets"][p]
                     = bs["Total_Current_Assets"][p] + bs["Total_Fixed_Assets"][p]
                /\ bs["Total_Liabilities_Equity"][p]
                     = bs["Total_Liabilities"][p] + bs["Total_Equity"][p]
                /\ bs["Balance_Check"][p]
                     = bs["Total_Assets"][p] - bs["Total_Liabilities_Equity"][p]

\* C15, witness: a finished run of several periods whose back-filled Cash is
\* not the placeholder and differs from period to period, on a sheet whose
\* check is not zero.
C15_Witness ==
    /\ pc = "done"
    /\ n_periods > 2
    /\ balance_sheet["Cash"][1] # 0
    /\ balance_sheet["Cash"][2] # balance_sheet["Cash"][1]
    /\ balance_sheet["Cash"][2] = cash_flow_stmt["Ending_Cash"][2]
    /\ balance_sheet["Balance_Check"][2] # 0

\* The section totals of the cash-flow statement have been computed.
TotalsBuilt == pc \in {"cf_cash_loop", "backfill", "export", "check", "done"}

\* C16: in every period p, Cash_from_Operations[p] = Net_Income[p] +
\* Depreciation + Amortization + the six working-capital changes at p;
\* Cash_from_Investing[p] = 0 and Cash_from_Financing[p] = 0 whatever the
\* input; so Net_Change_Cash[p] = Cash_from_Operations[p].
C16_CashFromOperations ==
    TotalsBuilt =>
        \A p \in Rows(n_periods) :
            LET cf == cash_flow_stmt
            IN  /\ cf["Cash_from_Operations"][p]
                     = income_stmt["Net_Income"][p] + income_stmt["Depreciation"][p]
                       + income_stmt["Amortization"][p]
                       + cf["Change_AR"][p] + cf["Change_Inventory"][p]
                       + cf["Change_Other_Current_Assets"][p] + cf["Change_AP"][p]
                       + cf["Change_Deferred_Income"][p]
                       + cf["Change_Other_Current_Liab"][p]
                /\ cf["Cash_from_Investing"][p] = 0
                /\ cf["Cash_from_Financing"][p] = 0
                /\ cf["Net_Change_Cash"][p] = cf["Cash_from_Operations"][p]

\* C16, witness: a finished run of several periods in which working capital
\* moves, so that cash from operations is not net income plus depreciation
\* and amortization alone, and the net change in cash is not zero.
C16_Witness ==
    /\ pc = "done"
    /\ n_periods > 2
    /\ cash_flow_stmt["Change_AR"][1] # 0
    /\ cash_flow_stmt["Change_AP"][1] # 0
    /\ cash_flow_stmt["Cash_from_Operations"][1]
         # income_stmt["Net_Income"][1] + income_stmt["Depreciation"][1]
           + income_stmt["Amortization"][1]
    /\ cash_flow_stmt["Net_Change_Cash"][1] = cash_flow_stmt["Cash_from_Operations"][1]
    /\ cash_flow_stmt["Net_Change_Cash"][1] # 0

\* The tables the export statement is about to write.
TablesToWrite ==
    [income_statement |-> income_stmt,
     balance_sheet |-> balance_sheet,
     cash_flow_statement |-> cash_flow_stmt]

C18_WorkbookMatchesEngine ==
    IncomeBuilt =>
        \A p \in Rows(n_periods) :
            /\ SheetRevenue("stream_1", p) = income_stmt["Revenue_Stream_1"][p]
            /\ SheetRevenue("stream_2", p) = income_stmt["Revenue_Stream_2"][p]
            /\ SheetRevenue("stream_3", p) = income_stmt["Revenue_Stream_3"][p]
            /\ SheetRevenue("stream_4", p) = income_stmt["Revenue_Stream_4"][p]
            /\ SheetSalesReturns(p) = income_stmt["Sales_Returns"][p]
            /\ SheetNetRevenue(p) = income_stmt["Net_Revenue"][p]
            /\ SheetVariableCosts(p) = income_stmt["Variable_Costs"][p]
            /\ SheetFixedCosts(p) = income_stmt["Fixed_Costs"][p]
            /\ SheetTotalCOGS(p) = income_stmt["Total_COGS"][p]
            /\ SheetGrossProfit(p) = income_stmt["Gross_Profit"][p]
            /\ SheetGrossMargin(p) = income_stmt["Gross_Margin_Pct"][p]
            /\ SheetTotalOperatingExpenses(p) = income_stmt["Total_Operating_Expenses"][p]
            /\ SheetEBITDA(p) = income_stmt["EBITDA"][p]
            /\ SheetNetIncomeBeforeTaxes(p) = income_stmt["Net_Income_Before_Taxes"][p]
            /\ SheetNetIncome(p) = income_stmt["Net_Income"][p]

\* The columns hold a value in every period.
Filled(df, cols) ==
    \A c \in cols : c \in DOMAIN df /\ DOMAIN df[c] = Rows(n_periods)

\* What the balance sheet's first pass and the cash-flow stage read of the
\* income statement.
IncomeOutputs == {"Net_Income", "Depreciation", "Amortization"}

\* What the cash-flow stage reads of the first-pass balance sheet.
FirstPassOutputs ==
    {"Accounts_Receivable", "Inventory", "Other_Current_Assets",
     "Accounts_Payable", "Deferred_Income", "Accrued_Expenses",
     "Accrued_Taxes", "Other_Current_Liab"}

\* What the second pass reads besides.
SecondPassInputs ==
    {"Total_Fixed_Assets", "Total_Liabilities", "Total_Equity"}

\* What the second pass writes.
SecondPassOutputs ==
    {"Cash", "Total_Current_Assets", "Total_Assets",
     "Total_Liabilities_Equity", "Balance_Check"}

\* The stage a statement belongs to: 1 income statement, 2 first-pass
\* balance sheet, 3 cash flow, 4 back-fill and totals, 5 export, 6 balance
\* check, 7 the end of the run.
RunStage ==
    CASE pc \in {"load", "main"} -> 0
      [] pc \in {"is_begin", "is_revenue_loop", "is_sales_returns",
                 "is_cost_loop", "is_totals"} -> 1
      [] pc = "bs_build" -> 2
      [] pc \in {"cf_begin", "cf_change_loop", "cf_totals", "cf_cash_loop"} -> 3
      [] pc = "backfill" -> 4
      [] pc = "export" -> 5
      [] pc = "check" -> 6
      [] pc \in {"done", "error"} -> 7

\* C19: the stages run in the order income statement, first-pass balance
\* sheet, cash flow, back-fill and totals, export, balance check: a step
\* stays in its stage, goes on to the next one or ends the run with an
\* exception.  When a stage starts, the columns it reads are there for every
\* period: the income statement for the balance sheet, the income statement
\* and the first-pass balance sheet for the cash flow, Ending_Cash and the
\* first-pass totals for the back-fill, the totalled sheet for the export,
\* the files for the check.  The balance sheet on disk holds the
\* cash-flow statement's Ending_Cash in Cash, and the totals computed with
\* it, in every period.
C19_StageOrder ==
    /\ [][\/ RunStage' = RunStage
          \/ RunStage' = RunStage + 1
          \/ pc' = "error"]_vars
    /\ [](pc = "bs_build" => Filled(income_stmt, IncomeOutputs))
    /\ [](RunStage = 3 =>
            /\ Filled(income_stmt, IncomeOutputs)
            /\ Filled(balance_sheet, FirstPassOutputs))
    /\ [](pc = "backfill" =>
            /\ Filled(cash_flow_stmt, {"Ending_Cash"})
            /\ Filled(balance_sheet, FirstPassOutputs \cup SecondPassInputs))
    /\ [](pc = "export" =>
            /\ Filled(balance_sheet, SecondPassOutputs)
            /\ balance_sheet["Cash"] = cash_flow_stmt["Ending_Cash"])
    /\ [](pc = "check" => exported = TablesToWrite)
    /\ [](exported # EmptyFrame =>
            /\ Filled(exported.balance_sheet, SecondPassOutputs)
            /\ exported.balance_sheet["Cash"]
                 = exported.cash_flow_statement["Ending_Cash"]
            /\ \A p \in Rows(n_periods) :
                  exported.balance_sheet["Total_Current_Assets"][p]
                    = exported.cash_flow_statement["Ending_Cash"][p]
                      + exported.balance_sheet["Accounts_Receivable"][p]
                      + exported.balance_sheet["Inventory"][p]
                      + exported.balance_sheet["Other_Current_Assets"][p])

\* C19, witness: the files of a run of several periods are on disk, the
\* check is about to start, and the balance sheet written holds a Cash that
\* is not the placeholder 0 and moves from one period to the next.
C19_Witness ==
    /\ pc = "check"
    /\ n_periods > 1
    /\ exported.balance_sheet["Cash"][0] # 0
    /\ exported.balance_sheet["Cash"][1] # exported.balance_sheet["Cash"][0]

\* The cells that hold a value in old and hold another one, or none, in new.
Rewritten(old, new) ==
    {cell \in UNION {{<<c, r>> : r \in DOMAIN old[c]} : c \in DOMAIN old} :
        \/ ~IsSet(new, cell[1], cell[2])
        \/ new[cell[1]][cell[2]] # old[cell[1]][cell[2]]}

\* C20, as claimed: a cell of the three statements that holds a value is
\* never given another one, except the balance sheet's Cash cells, by the
\* back-fill.
C20_WrittenOnce ==
    [][/\ Rewritten(income_stmt, income_stmt') = {}
       /\ Rewritten(cash_flow_stmt, cash_flow_stmt') = {}
       /\ Rewritten(balance_sheet, balance_sheet')
            \subseteq (IF pc = "backfill" THEN {"Cash"} \X Rows(n_periods) ELSE {})]_vars

\* The cells the cash-flow statement creates as 0.0 and fills in a loop.
PlaceholderColumns == Range(ChangeColumns) \cup {"Beginning_Cash", "Ending_Cash"}

\* C20, amended: a cell that holds a value is given another one only in
\* these cases.  (a) The balance sheet's Cash, created as 0, is rewritten by
\* the back-fill and by no other step.  (b) The six working-capital change
\* cells of a period, created as 0, are rewritten by that period's pass of
\* the working-capital loop.  (c) Beginning_Cash and Ending_Cash of a
\* period, created as 0, are rewritten by that period's pass of the cash
\* loop.  In (b) and (c) the value replaced is the 0 the cell was created
\* with, so a cell is rewritten at most once.  (d) Sales_Returns of period 0
\* holds the period-0 actual, not the formula's value, as soon as the column
\* exists.  The income statement is never rewritten, and no balance-sheet
\* cell other than Cash is.
C20_WrittenOnceButPlaceholders ==
    /\ [][/\ Rewritten(income_stmt, income_stmt') = {}
           /\ Rewritten(balance_sheet, balance_sheet')
                \subseteq (IF pc = "backfill" THEN {"Cash"} \X Rows(n_periods) ELSE {})
           /\ Rewritten(cash_flow_stmt, cash_flow_stmt')
                \subseteq (CASE pc = "cf_change_loop" -> Range(ChangeColumns) \X {i}
                             [] pc = "cf_cash_loop" -> {"Beginning_Cash", "Ending_Cash"} \X {i}
                             [] OTHER -> {})
           /\ \A cell \in Rewritten(cash_flow_stmt, cash_flow_stmt') :
                  cash_flow_stmt[cell[1]][cell[2]] = 0]_vars
    /\ []((pc # "error" /\ IsSet(income_stmt, "Sales_Returns", 0)) =>
            income_stmt["Sales_Returns"][0]
              = income_config.sales_returns.initial_value)

\* C20, witness: in the cash loop of a run of several periods, period 0 has
\* had its Ending_Cash placeholder replaced and period 1 still holds it,
\* after the working-capital loop replaced the Change_AR placeholder of
\* period 1; the period-0 Sales_Returns is the actual -500 although the
\* formula gives another value.
C20_Witness ==
    /\ pc = "cf_cash_loop"
    /\ i = 1
    /\ n_periods > 1
    /\ cash_flow_stmt["Ending_Cash"][0] # 0
    /\ cash_flow_stmt["Ending_Cash"][1] = 0
    /\ cash_flow_stmt["Change_AR"][1] # 0
    /\ income_stmt["Sales_Returns"][0] = -500
    /\ SalesReturnsFormula(income_stmt, 0, income_config.sales_returns.rate) # -500

\* C21: once the balance sheet's first pass has run, in every period p,
\* Accumulated_Depreciation[p] = -depreciation * (p + 1),
\* Accumulated_Amortization[p] = -amortization * (p + 1),
\* PPE_Net[p] = PPE_Gross[p] + Accumulated_Depreciation[p] with PPE_Gross the
\* configured gross amount, Intangibles_Net[p] = Intangibles_Gross[p] +
\* Accumulated_Amortization[p] likewise, and each net amount is at most its
\* gross amount.
C21_FixedAssets ==
    BalanceBuilt =>
        \A p \in Rows(n_periods) :
            LET bs == balance_sheet
                da == income_config.depreciation_amortization
            IN  /\ bs["Accumulated_Depreciation"][p] = (-da.depreciation) * (p + 1)
                /\ bs["Accumulated_Amortization"][p] = (-da.amortization) * (p + 1)
                /\ bs["PPE_Gross"][p] = balance_config.fixed_assets.ppe_gross
                /\ bs["Intangibles_Gross"][p]
                     = balance_config.fixed_assets.intangibles_gross
                /\ bs["PPE_Net"][p]
                     = bs["PPE_Gross"][p] + bs["Accumulated_Depreciation"][p]
                /\ bs["Intangibles_Net"][p]
                     = bs["Intangibles_Gross"][p] + bs["Accumulated_Amortization"][p]
                /\ bs["PPE_Net"][p] <= bs["PPE_Gross"][p]
                /\ bs["Intangibles_Net"][p] <= bs["Intangibles_Gross"][p]

\* C21, witness: a finished run of several periods with depreciation 120
\* and amortization 250 against intangibles of 3000: in period 2 the net
\* amounts are 205000 - 360 and 3000 - 750.
C21_Witness ==
    /\ pc = "done"
    /\ n_periods > 2
    /\ balance_sheet["PPE_Net"][2] = 204640
    /\ balance_sheet["Intangibles_Net"][2] = 2250

\* C22: once the income statement is built, in every period p,
\* Total_COGS = Variable_Costs + Fixed_Costs, Gross_Profit = Net_Revenue -
\* Total_COGS, Total_Operating_Expenses = ga_expenses + the six salary
\* components (total_salaries, benefits, payroll_taxes, processing_fees,
\* bonuses, commissions) and so the same in every period, and EBITDA =
\* Gross_Profit - Total_Operating_Expenses.
C22_OperatingLines ==
    IncomeBuilt =>
        \A p \in Rows(n_periods) :
            LET df == income_stmt
                opex == income_config.operating_expenses
            IN  /\ df["Total_COGS"][p] = df["Variable_Costs"][p] + df["Fixed_Costs"][p]
                /\ df["Gross_Profit"][p] = df["Net_Revenue"][p] - df["Total_COGS"][p]
                /\ df["Total_Operating_Expenses"][p]
                     = opex.ga_expenses + opex.salaries.total_salaries
                       + opex.salaries.benefits + opex.salaries.payroll_taxes
                       + opex.salaries.processing_fees + opex.salaries.bonuses
                       + opex.salaries.commissions
                /\ df["Total_Operating_Expenses"][p] = df["Total_Operating_Expenses"][0]
                /\ df["EBITDA"][p]
                     = df["Gross_Profit"][p] - df["Total_Operating_Expenses"][p]

\* C22, witness: a finished run of several periods whose cost of goods sold
\* and EBITDA move from period 0 to period 1 while the operating expenses
\* stay at 27895 + 288250.
C22_Witness ==
    /\ pc = "done"
    /\ n_periods > 2
    /\ income_stmt["Total_COGS"][1] # income_stmt["Total_COGS"][0]
    /\ income_stmt["EBITDA"][1] # income_stmt["EBITDA"][0]
    /\ income_stmt["Total_Operating_Expenses"][1] = 316145

\* The assumption set has no fixed-cost override: the 'changes' mapping is
\* absent or has no key.
NoOverride ==
    /\ MissingKey(config, <<"income_statement", "cogs", "fixed_costs">>) = ""
    /\ \/ ~Has(income_config.cogs.fixed_costs, "changes")
       \/ DOMAIN income_config.cogs.fixed_costs.changes = {}

\* C23: when the override map is absent or empty, every Fixed_Costs cell
\* written is the configured initial value, no exception is raised, and the
\* cost loop leaves the column filled for every period.
C23_NoOverrideDefault ==
    NoOverride =>
        /\ \A p \in Rows(n_periods) :
              IsSet(income_stmt, "Fixed_Costs", p) =>
                  income_stmt["Fixed_Costs"][p]
                      = income_config.cogs.fixed_costs.initial_value
        /\ error = NoError
        /\ pc # "error"
        /\ (pc = "is_totals" \/ IncomeBuilt) =>
              DOMAIN income_stmt["Fixed_Costs"] = Rows(n_periods)

\* C23, witness: a finished run of more than five periods on an assumption
\* set without the 'changes' key, with Fixed_Costs at 30000 in period 6.
C23_Witness ==
    /\ pc = "done"
    /\ n_periods > 6
    /\ ~Has(income_config.cogs.fixed_costs, "changes")
    /\ income_stmt["Fixed_Costs"][6] = 30000

\* C24, as claimed: in every period whose Fixed_Costs the engine has
\* written, the workbook's Fixed Costs cell evaluates to the engine's value,
\* and both are the value of the override with the largest trigger period
\* <= p (the initial value when there is none).
C24_FixedCostsAgree ==
    \A p \in Rows(n_periods) :
        (pc # "error" /\ IsSet(income_stmt, "Fixed_Costs", p)) =>
            /\ SheetFixedCosts(p) = income_stmt["Fixed_Costs"][p]
            /\ SheetFixedCosts(p) = LatestOverride(income_config.cogs.fixed_costs, p)

\* The line items of the income statement (lines 65-159).
IncomeLines ==
    {"Date"} \cup Range(RevenueColumns)
    \cup {"Sales_Returns", "Net_Revenue", "Variable_Costs", "Fixed_Costs",
          "Total_COGS", "Gross_Profit", "Gross_Margin_Pct", "GA_Expenses",
          "Total_Salaries_Commissions", "Total_Operating_Expenses", "EBITDA",
          "Interest_Income", "Other_Income", "Interest_Expense", "Bad_Debt",
          "Depreciation", "Amortization", "Total_Interest_DA",
          "Net_Income_Before_Taxes", "Income_Taxes", "Net_Income"}

\* The line items of the balance sheet's first pass (lines 172-245).
FirstPassLines ==
    {"Date", "Inventory", "Accounts_Receivable", "Accounts_Payable",
     "Accrued_Expenses", "Other_Current_Liab", "Other_Current_Assets", "Cash",
     "PPE_Gross", "Accumulated_Depreciation", "PPE_Net", "Intangibles_Gross",
     "Accumulated_Amortization", "Intangibles_Net", "Total_Fixed_Assets",
     "Credit_Cards", "Notes_Payable", "Deferred_Income", "Accrued_Taxes",
     "Total_Current_Liabilities", "Long_Term_Debt", "Deferred_Tax_Liab",
     "Other_Liabilities", "Total_Long_Term_Liabilities", "Total_Liabilities",
     "Paid_In_Capital", "Common_Stock", "Preferred_Stock", "Capital_Round_1",
     "Capital_Round_2", "Capital_Round_3", "Retained_Earnings", "Total_Equity"}

\* The line items of the cash-flow statement (lines 258-335).
CashFlowLines ==
    {"Date", "Net_Income", "Depreciation", "Amortization"}
    \cup Range(ChangeColumns)
    \cup {"Cash_from_Operations", "Change_Fixed_Assets", "Cash_from_Investing",
          "Change_Credit_Cards_Notes", "Change_Debt", "Cash_from_Financing",
          "Net_Change_Cash", "Beginning_Cash", "Ending_Cash"}

\* The table has exactly these line items, each with a value in each of
\* the rows 0 .. N-1, N the configured period count.
HasRows(table, lines) ==
    /\ DOMAIN table = lines
    /\ \A c \in lines : DOMAIN table[c] = Rows(NUM_PERIODS)

\* C25: for a period count N >= 1, create_date_row returns N dates; the
\* income statement, once built, has the rows 0 .. N-1, each with the same
\* 26 line items; the balance sheet has the rows 0 .. N-1 with the 33 line
\* items of its first pass and, after the second pass, the four totals
\* besides; the cash-flow statement, once built, has the rows 0 .. N-1 with
\* its 19 line items.  For N = 1 the revenue loop and the cost loop are not
\* entered, the two cash-flow loops run their period-0 pass only, and the
\* single row holds the period-0 values.
C25_RowsPerPeriod ==
    /\ (pc \notin {"load", "main", "error"}) =>
          (NUM_PERIODS >= 1 /\ Len(dates) = NUM_PERIODS)
    /\ IncomeBuilt => HasRows(income_stmt, IncomeLines)
    /\ (BalanceBuilt /\ ~Closed) => HasRows(balance_sheet, FirstPassLines)
    /\ Closed => HasRows(balance_sheet, FirstPassLines \cup SecondPassOutputs)
    /\ Closed => HasRows(cash_flow_stmt, CashFlowLines)
    /\ n_periods = 1 =>
          /\ pc \notin {"is_revenue_loop", "is_cost_loop"}
          /\ pc \in {"cf_change_loop", "cf_cash_loop"} => i = 0
          /\ IncomeBuilt =>
                /\ income_stmt["Revenue_Stream_1"][0]
                     = income_config.revenue_streams.stream_1.initial_value
                /\ income_stmt["Variable_Costs"][0]
                     = income_config.cogs.variable_costs.initial_value
                /\ income_stmt["Fixed_Costs"][0]
                     = income_config.cogs.fixed_costs.initial_value
                /\ income_stmt["Sales_Returns"][0]
                     = income_config.sales_returns.initial_value

\* C25, witness: a finished run of a single period on an assumption set
\* with growth factor 2, whose one row holds the initial revenue.
C25_Witness ==
    /\ pc = "done"
    /\ n_periods = 1
    /\ income_config.revenue_streams.stream_1.growth_rate = 2
    /\ income_stmt["Revenue_Stream_1"] = [r \in {0} |-> 50000]
    /\ DOMAIN cash_flow_stmt["Ending_Cash"] = {0}

\* C26: after the second pass, Balance_Check[p] is the same in every period
\* p and equals the opening imbalance: beginning cash, receivable, inventory
\* and the five other-current-asset components plus gross PP&E and gross
\* intangibles, less beginning payable, 5000, beginning accrued expenses,
\* beginning accrued taxes, beginning other current liabilities, credit
\* cards, notes payable, the three long-term liabilities and the six equity
\* constants.  So Balance_Check is 0 in every period when the opening
\* position balances and in none when it does not.
C26_BalanceCheckIsOpeningImbalance ==
    Closed =>
        /\ \A p \in Rows(n_periods) :
              /\ balance_sheet["Balance_Check"][p] = OpeningImbalance
              /\ balance_sheet["Balance_Check"][p] = balance_sheet["Balance_Check"][0]
        /\ (OpeningImbalance = 0) <=>
              (\A p \in Rows(n_periods) : balance_sheet["Balance_Check"][p] = 0)

\* C26, witness: a finished run of several periods with moving receivables
\* and growing revenue from an opening position that does not balance, whose
\* check in period 2 is the opening imbalance.
C26_Witness ==
    /\ pc = "done"
    /\ n_periods > 2
    /\ OpeningImbalance # 0
    /\ balance_sheet["Accounts_Receivable"][1] # balance_sheet["Accounts_Receivable"][0]
    /\ income_stmt["Net_Income"][1] # income_stmt["Net_Income"][0]
    /\ balance_sheet["Balance_Check"][2] = OpeningImbalance

\* The working-capital loop has run for every period.
ChangesBuilt == pc \in {"cf_totals", "cf_cash_loop", "backfill", "export", "check", "done"}

\* The cash loop has run for every period.
CashBuilt == pc \in {"backfill", "export", "check", "done"}

\* The sum of the five beginning other-current-asset components.
OpeningOCA ==
    LET b == balance_config.beginning_balances
    IN  b.other_receivable + b.prepaid_expenses + b.prepaid_insurance
        + b.unbilled_revenue + b.other_current_assets

\* The combined other current liabilities at the opening.
OpeningOCL ==
    LET b == balance_config.beginning_balances
    IN  b.accrued_expenses + b.accrued_taxes + b.other_current_liabilities

\* Cash generated by working capital from the opening to period p: the fall
\* of each asset line and the rise of each liability line.
WorkingCapitalMovement(p) ==
    LET b == balance_config.beginning_balances
        bs == balance_sheet
    IN  (b.accounts_receivable - bs["Accounts_Receivable"][p])
        + (b.inventory - bs["Inventory"][p])
        + (OpeningOCA - bs["Other_Current_Assets"][p])
        + (bs["Accounts_Payable"][p] - b.accounts_payable)
        + (bs["Deferred_Income"][p] - BeginningDeferredIncome)
        + (CombinedOCL(bs, p) - OpeningOCL)

\* C27: the working-capital changes telescope.  For every period p the sum
\* of Change_X[0..p] is the beginning balance less the balance at p for the
\* asset lines (receivable, inventory, other current assets) and the balance
\* at p less the beginning balance for the liability lines (payable,
\* deferred income, combined other current liabilities), the beginning
\* balance being the one period 0 is compared with.  Hence Ending_Cash[p] =
\* beginning cash + Retained_Earnings[p] + (p + 1) * (depreciation +
\* amortization) + the working-capital movement from the opening to p, in
\* which no balance of a period before p appears.
C27_ChangesTelescope ==
    /\ ChangesBuilt =>
          \A p \in Rows(n_periods) :
              LET b == balance_config.beginning_balances
                  bs == balance_sheet
                  cf == cash_flow_stmt
              IN  /\ CumSum(cf["Change_AR"], p)
                       = b.accounts_receivable - bs["Accounts_Receivable"][p]
                  /\ CumSum(cf["Change_Inventory"], p) = b.inventory - bs["Inventory"][p]
                  /\ CumSum(cf["Change_Other_Current_Assets"], p)
                       = OpeningOCA - bs["Other_Current_Assets"][p]
                  /\ CumSum(cf["Change_AP"], p)
                       = bs["Accounts_Payable"][p] - b.accounts_payable
                  /\ CumSum(cf["Change_Deferred_Income"], p)
                       = bs["Deferred_Income"][p] - BeginningDeferredIncome
                  /\ CumSum(cf["Change_Other_Current_Liab"], p)
                       = CombinedOCL(bs, p) - OpeningOCL
    /\ CashBuilt =>
          \A p \in Rows(n_periods) :
              cash_flow_stmt["Ending_Cash"][p]
                = balance_config.beginning_balances.cash
                  + balance_sheet["Retained_Earnings"][p]
                  + (p + 1) * (income_config.depreciation_amortization.depreciation
                               + income_config.depreciation_amortization.amortization)
                  + WorkingCapitalMovement(p)

\* C27, witness: a finished run of several periods whose receivable goes up
\* and down again, so that the changes of periods 1 and 2 are not 0 and
\* cancel in the sum.
C27_Witness ==
    /\ pc = "done"
    /\ n_periods > 2
    /\ cash_flow_stmt["Change_AR"][1] # 0
    /\ cash_flow_stmt["Change_AR"][2] = -cash_flow_stmt["Change_AR"][1]
    /\ cash_flow_stmt["Change_AP"][2] # 0

\* C28: once the working-capital loop has run, Change_Deferred_Income[0] =
\* liabilities_constants.deferred_income - 5000, whatever else the
\* assumption set holds, and Change_Deferred_Income[p] = 0 for p > 0.  The
\* amount enters Cash_from_Operations of period 0, and Ending_Cash of every
\* period is what the other lines give plus that amount.
C28_DeferredIncomeLiteral ==
    /\ ChangesBuilt =>
          \A p \in Rows(n_periods) :
              cash_flow_stmt["Change_Deferred_Income"][p]
                = IF p = 0
                  THEN balance_config.liabilities_constants.deferred_income - 5000
                  ELSE 0
    /\ CashBuilt =>
          LET once == balance_config.liabilities_constants.deferred_income - 5000
              b == balance_config.beginning_balances
              bs == balance_sheet
              cf == cash_flow_stmt
          IN  /\ cf["Cash_from_Operations"][0]
                   = cf["Net_Income"][0] + cf["Depreciation"][0] + cf["Amortization"][0]
                     + cf["Change_AR"][0] + cf["Change_Inventory"][0]
                     + cf["Change_Other_Current_Assets"][0] + cf["Change_AP"][0]
                     + cf["Change_Other_Current_Liab"][0] + once
              /\ \A p \in Rows(n_periods) :
                    cf["Ending_Cash"][p]
                      = b.cash + bs["Retained_Earnings"][p]
                        + (p + 1) * (cf["Depreciation"][0] + cf["Amortization"][0])
                        + (b.accounts_receivable - bs["Accounts_Receivable"][p])
                        + (b.inventory - bs["Inventory"][p])
                        + (OpeningOCA - bs["Other_Current_Assets"][p])
                        + (bs["Accounts_Payable"][p] - b.accounts_payable)
                        + (CombinedOCL(bs, p) - OpeningOCL)
                        + once

\* C28, witness: a finished run of several periods with deferred income
\* configured at 6000: 1000 enters period 0 and nothing later.
C28_Witness ==
    /\ pc = "done"
    /\ n_periods > 2
    /\ balance_config.liabilities_constants.deferred_income = 6000
    /\ cash_flow_stmt["Change_Deferred_Income"][0] = 1000
    /\ cash_flow_stmt["Change_Deferred_Income"][2] = 0

\* C29: once the working-capital loop has run, Change_Other_Current_Liab[p]
\* is the change of Accrued_Expenses + Accrued_Taxes + Other_Current_Liab.
\* At p = 0 the current balance has liabilities_constants.accrued_taxes and
\* the prior one beginning_balances.accrued_taxes, so the change is the
\* movement of accrued expenses and other current liabilities from their
\* beginning balances plus the difference of the two accrued-taxes inputs,
\* and that difference is part of Ending_Cash[0].  For p > 0 the change is
\* the movement of accrued expenses and other current liabilities alone:
\* Accrued_Taxes is the same in every period.
C29_OtherCurrentLiabilities ==
    /\ ChangesBuilt =>
          \A p \in Rows(n_periods) :
              LET b == balance_config.beginning_balances
                  l == balance_config.liabilities_constants
                  bs == balance_sheet
                  change == cash_flow_stmt["Change_Other_Current_Liab"][p]
              IN  /\ bs["Accrued_Taxes"][p] = l.accrued_taxes
                  /\ p = 0 =>
                        /\ change
                             = (bs["Accrued_Expenses"][0] + l.accrued_taxes
                                + bs["Other_Current_Liab"][0])
                               - (b.accrued_expenses + b.accrued_taxes
                                  + b.other_current_liabilities)
                        /\ change
                             = (bs["Accrued_Expenses"][0] - b.accrued_expenses)
                               + (bs["Other_Current_Liab"][0] - b.other_current_liabilities)
                               + (l.accrued_taxes - b.accrued_taxes)
                  /\ p > 0 =>
                        change
                          = (bs["Accrued_Expenses"][p] - bs["Accrued_Expenses"][p - 1])
                            + (bs["Other_Current_Liab"][p] - bs["Other_Current_Liab"][p - 1])
    /\ (CashBuilt /\ n_periods > 0) =>
          LET b == balance_config.beginning_balances
              l == balance_config.liabilities_constants
              bs == balance_sheet
              cf == cash_flow_stmt
          IN  cf["Ending_Cash"][0]
                = b.cash + cf["Net_Income"][0] + cf["Depreciation"][0]
                  + cf["Amortization"][0] + cf["Change_AR"][0]
                  + cf["Change_Inventory"][0] + cf["Change_Other_Current_Assets"][0]
                  + cf["Change_AP"][0] + cf["Change_Deferred_Income"][0]
                  + (bs["Accrued_Expenses"][0] - b.accrued_expenses)
                  + (bs["Other_Current_Liab"][0] - b.other_current_liabilities)
                  + (l.accrued_taxes - b.accrued_taxes)

\* C29, witness: a finished run of several periods with beginning accrued
\* taxes of 1200 against the constant 1000, flat accrued expenses and other
\* current liabilities in period 0 and moving ones later: -200 enters
\* period 0.
C29_Witness ==
    /\ pc = "done"
    /\ n_periods > 2
    /\ balance_config.beginning_balances.accrued_taxes = 1200
    /\ balance_config.liabilities_constants.accrued_taxes = 1000
    /\ cash_flow_stmt["Change_Other_Current_Liab"][0] = -200
    /\ cash_flow_stmt["Change_Other_Current_Liab"][0]
         # balance_sheet["Accrued_Expenses"][0]
           - balance_config.beginning_balances.accrued_expenses
           + balance_sheet["Other_Current_Liab"][0]
           - balance_config.beginning_balances.other_current_liabilities

\* C30: every Fixed_Costs cell the engine has written is, at period 0, the
\* initial value, a period_0 key or not; at a period p > 0 with a key
\* period_p, that key's value; at a period p > 0 without its own key, the
\* period_5 value when p >= 5 and period_5 is configured, and the initial
\* value otherwise.  So a key period_k with k # 5 shows at period k alone.
C30_OverrideAtItsPeriodOnly ==
    \A p \in Rows(n_periods) :
        (pc # "error" /\ IsSet(income_stmt, "Fixed_Costs", p)) =>
            LET fc == income_config.cogs.fixed_costs
                keys == IF Has(fc, "changes") THEN DOMAIN fc.changes ELSE {}
            IN  /\ p = 0 => income_stmt["Fixed_Costs"][p] = fc.initial_value
                /\ (p > 0 /\ p \in keys) =>
                      income_stmt["Fixed_Costs"][p] = fc.changes[p]
                /\ (p > 0 /\ p \notin keys /\ p >= 5 /\ 5 \in keys) =>
                      income_stmt["Fixed_Costs"][p] = fc.changes[5]
                /\ (p > 0 /\ p \notin keys /\ ~(p >= 5 /\ 5 \in keys)) =>
                      income_stmt["Fixed_Costs"][p] = fc.initial_value

\* C30, witness: a finished run of more than eight periods with the keys
\* period_3 and period_5: 32000 at period 3, the initial 30000 again at
\* period 4, 35000 from period 5 on.
C30_Witness ==
    /\ pc = "done"
    /\ n_periods > 8
    /\ Has(income_config.cogs.fixed_costs, "changes")
    /\ DOMAIN income_config.cogs.fixed_costs.changes = {3, 5}
    /\ income_stmt["Fixed_Costs"][3] = 32000
    /\ income_stmt["Fixed_Costs"][4] = 30000
    /\ income_stmt["Fixed_Costs"][8] = 35000

=============================================================================
